---- MODULE Spec2Model ----
(***************************************************************************)
(* The KACO poll engine (custom_components/kaco/__init__.py) as a state    *)
(* machine.                                                                *)
(*                                                                         *)
(* Units.  Poll intervals (work_interval, update_interval, base_interval)  *)
(* are Python floats in seconds; they are kept here as integers in         *)
(* milliseconds.  Time stamps and kwh_interval are whole seconds (the code  *)
(* truncates "now" to the second).  Scaled voltages and currents are kept   *)
(* in thousandths (the code rounds to 3 decimals), power in watts.          *)
(*                                                                         *)
(* Atomicity.  The integration runs on one asyncio event loop, so the code  *)
(* between two awaits is one atomic step.  A poll cycle is split at its     *)
(* awaits: Poll (up to the first realtime GET), RtReply (one realtime       *)
(* answer, up to the next GET or the return) and DayReply (the daily        *)
(* answer, up to the return).                                               *)
(*                                                                         *)
(* Aliasing.  _bootstrap_defaults returns the dict it was given, so the     *)
(* local "values" of a cycle, node["values"], the dict the cycle returns    *)
(* and coordinator.data are one object; the field "values" of a poll        *)
(* object below is that one dict, and every write to it is visible to a     *)
(* reader at once.                                                          *)
(***************************************************************************)
EXTENDS Integers, Sequences, FiniteSets, TLC

VARIABLES
    entries,    \* config entries of the host: entry id -> entry.data (a dict),
                \* the coordinator its platform holds (0: not set up) and
                \* whether it was unloaded before
    registry,   \* hass.data[DOMAIN]: node key -> id of the node stored there
    poll,       \* id -> node dict + closure of async_get_datas + coordinator
    clock,      \* wall clock, whole seconds
    bo,         \* the direct call of a pure function (_apply_backoff,
                \* _bootstrap_defaults): inputs and result
    flags,      \* hass.data["kaco_repair_flags"]: flag key -> TRUE
    recorder,   \* the recorder: the statistic ids it lists, the statistics
                \* imported into it and the notifications raised about it
    requests,   \* the HTTP GETs sent by async_import_historical, in order
    sensors,    \* the KacoSensor entities: sensor id -> its attributes, the
                \* coordinator it reads and what its properties returned last
    flow        \* the config flow of the user step: calls made and last result

\* what lies outside the poll engine
outside == <<flags, recorder, requests, sensors, flow>>

vars == <<entries, registry, poll, clock, bo, flags, recorder, requests, sensors, flow>>

(***************************************************************************)
(* Bounds of the model                                                     *)
(***************************************************************************)
MaxFail == 3          \* Spec: no cycle starts at this many consecutive failures
MaxOutageFail == 1028 \* SpecOutage: the same, for an outage of many cycles
MaxClock == 1         \* the clock stops here
MaxBackoffFail == 1030 \* SpecBackoff: largest fail_count passed to _apply_backoff
MaxLifeFail == 1      \* SpecLifecycle: no cycle starts at this many failures
MaxSubmits == 1       \* SpecListener: submissions of the options form
MaxInFlightNodes == 2 \* SpecInFlight: nodes made by get_coordinator
MaxNodes == 3         \* SpecLifecycle: nodes created over the run
MaxRecordsFail == 4   \* SpecRecords: no cycle starts at this many failures

\* calls of the functions of statistics_repair.py in one behaviour
MaxRepairCalls == 3

\* SpecFlow: config entries in the host
MaxEntries == 3

\* SpecFlow: calls of the user step on one flow handler
MaxSteps == 2

(***************************************************************************)
(* Constants of the program                                                *)
(***************************************************************************)
MIN_INTERVAL == 5
MAX_INTERVAL == 120
BACKOFF_BASE == 2
JITTER_FRACTION_PERMILLE == 150
WARN_UNTIL_FAILS == 3
RETRY_PER_POLL == 1
\* 2.0 ** n raises OverflowError for n >= 1024 (IEEE double, as Python's
\* float_pow reports it)
FLOAT_MAX_EXP == 1024
DEFAULT_INTERVAL == 20
DEFAULT_KWH_INTERVAL == 120
FIELDS_REALTIME == 14

Min(a, b) == IF a <= b THEN a ELSE b
Max(a, b) == IF a >= b THEN a ELSE b

\* float(<seconds>) of a configured interval, in milliseconds
Seconds(s) == s * 1000

(***************************************************************************)
(* Dicts are functions; d.get(k) is a test of DOMAIN d.                    *)
(***************************************************************************)
EmptyDict == <<>>
Has(d, k) == k \in DOMAIN d
Put(d, k, v) == (k :> v) @@ d
SetDefault(d, k, v) == IF Has(d, k) THEN d ELSE Put(d, k, v)
PutExtra(values, k, v) == Put(values, "extra", Put(values["extra"], k, v))

(***************************************************************************)
(* _apply_backoff                                                          *)
(***************************************************************************)
\* current * 2.0 ** n, for n below FLOAT_MAX_EXP.  The product is only used
\* under min(_MAX_INTERVAL, max(_MIN_INTERVAL, .)), so the doubling stops once
\* it has passed _MAX_INTERVAL, or at once for a non-positive current.
RECURSIVE TimesPow2(_, _)
TimesPow2(current, n) ==
    IF n = 0 \/ current <= 0 \/ current >= Seconds(MAX_INTERVAL)
    THEN current
    ELSE TimesPow2(BACKOFF_BASE * current, n - 1)

ClampInterval(x) == Min(Seconds(MAX_INTERVAL), Max(Seconds(MIN_INTERVAL), x))

\* The jitter draw random.uniform(-0.15, 0.15), in thousandths
JitterDraws == {-JITTER_FRACTION_PERMILLE, 0, JITTER_FRACTION_PERMILLE}

\* ApplyBackoff with its last clamp left out
ApplyBackoffNoFinalClamp(current, fail_count, jitter) ==
    LET e == Max(0, fail_count - 1) IN
    IF e >= FLOAT_MAX_EXP
    THEN [raised |-> TRUE, value |-> 0]
    ELSE LET base == ClampInterval(TimesPow2(current, e))
         IN  [raised |-> FALSE, value |-> (base * (1000 + jitter)) \div 1000]

\* ApplyBackoff without the exponential factor
ApplyBackoffNoGrowth(current, fail_count, jitter) ==
    LET e == Max(0, fail_count - 1) IN
    IF e >= FLOAT_MAX_EXP
    THEN [raised |-> TRUE, value |-> 0]
    ELSE LET base == ClampInterval(current)
         IN  [raised |-> FALSE,
              value |-> ClampInterval((base * (1000 + jitter)) \div 1000)]

\* _apply_backoff(current, fail_count) with the jitter draw as a parameter:
\* the new interval, or raised = TRUE where 2.0 ** (fail_count - 1) overflows
ApplyBackoff(current, fail_count, jitter) ==
    LET e == Max(0, fail_count - 1) IN
    IF e >= FLOAT_MAX_EXP
    THEN [raised |-> TRUE, value |-> 0]
    ELSE LET base == ClampInterval(TimesPow2(current, e))
         IN  [raised |-> FALSE,
              value |-> ClampInterval((base * (1000 + jitter)) \div 1000)]

\* _log_timeout: the severity of the log line for this failure
LogTimeout(fail_count) ==
    IF fail_count <= WARN_UNTIL_FAILS THEN "warning" ELSE "debug"

(***************************************************************************)
(* _bootstrap_defaults                                                     *)
(***************************************************************************)
\* BootstrapDefaults without the default of "model"
BootstrapDefaultsNoModel(existing) ==
    LET v1 == SetDefault(existing, "extra", EmptyDict)
        x1 == SetDefault(v1["extra"], "max_power", 0)
        x2 == SetDefault(x1, "serialno", "no_serial")
    IN  Put(v1, "extra", x2)

\* BootstrapDefaults with the serial number set, present or not
BootstrapDefaultsOverwrite(existing) ==
    LET v1 == SetDefault(existing, "extra", EmptyDict)
        x1 == SetDefault(v1["extra"], "max_power", 0)
        x2 == Put(x1, "serialno", "no_serial")
        x3 == SetDefault(x2, "model", "no_model")
    IN  Put(v1, "extra", x3)

\* existing is a dict, or EmptyDict for None ("existing or {}" maps both None
\* and {} to a new empty dict)
BootstrapDefaults(existing) ==
    LET v1 == SetDefault(existing, "extra", EmptyDict)
        x1 == SetDefault(v1["extra"], "max_power", 0)
        x2 == SetDefault(x1, "serialno", "no_serial")
        x3 == SetDefault(x2, "model", "no_model")
    IN  Put(v1, "extra", x3)

(***************************************************************************)
(* Text.  An address is a sequence of characters.  A response body is kept  *)
(* as the result of its split: a field is a token [s, num, v], s the text   *)
(* of the field, num whether float(s) parses and v the parsed number (v is  *)
(* in thousandths for the energy field of the daily file).                  *)
(***************************************************************************)
Whitespace == {" ", "\t", "\n", "\r"}

RECURSIVE LStrip(_)
LStrip(s) ==
    IF s # <<>> /\ Head(s) \in Whitespace THEN LStrip(Tail(s)) ELSE s

RECURSIVE RStrip(_)
RStrip(s) ==
    IF s # <<>> /\ s[Len(s)] \in Whitespace
    THEN RStrip(SubSeq(s, 1, Len(s) - 1))
    ELSE s

\* str.strip()
Strip(s) == RStrip(LStrip(s))

\* an integer literal, a decimal literal, any other text
Num(str, n) == [s |-> str, num |-> TRUE, int |-> TRUE, v |-> n]
Dec(str, thousandths) == [s |-> str, num |-> TRUE, int |-> FALSE, v |-> thousandths]
Txt(str) == [s |-> str, num |-> FALSE, int |-> FALSE, v |-> 0]

\* ds[i], i counted from 0 as in the code
Field(ds, i) == ds[i + 1]

(***************************************************************************)
(* Status table t (const.py): a list of 168 strings, "" where t_map has no  *)
(* entry.                                                                   *)
(***************************************************************************)
T_LEN == 168
t_map ==
    0 :> "Initphase" @@
    1 :> "Waiting for feed-in" @@
    2 :> "Generator voltage too low" @@
    3 :> "Constant volt. control" @@
    4 :> "Feed-in mode" @@
    7 :> "Self test in progress" @@
    8 :> "Self test in progress" @@
    9 :> "Test mode" @@
    10 :> "Temperature in unit too high" @@
    11 :> "Power limitation" @@
    17 :> "Powador-protect disconnection" @@
    18 :> "Resid. current shutdown (AFI)" @@
    19 :> "Generator insulation fault" @@
    20 :> "Power rampup active" @@
    21 :> "Protect. shutdown overcurrent DC1" @@
    22 :> "Protect. shutdown overcurrent DC2" @@
    23 :> "Protect. shutdown overcurrent DC3" @@
    29 :> "Check ground fault fuse" @@
    30 :> "Voltage trans. fault" @@
    31 :> "RCD module error" @@
    32 :> "Self test error" @@
    33 :> "DC feed-in error" @@
    34 :> "Internal communication error" @@
    35 :> "Protect. shutdown SW" @@
    36 :> "Protect. shutdown HW" @@
    37 :> "Unknown Hardware" @@
    38 :> "Error: Generator Voltage too high" @@
    41 :> "Line failure: undervoltage L1" @@
    42 :> "Line failure: overvoltage L1" @@
    43 :> "Line failure: undervoltage L2" @@
    44 :> "Line failure: overvoltage L2" @@
    45 :> "Line failure: undervoltage L3" @@
    46 :> "Line failure: overvoltage L3" @@
    47 :> "Line failure: line-to-line voltage" @@
    48 :> "Line failure: underfreqency" @@
    49 :> "Line failure: overfrequency" @@
    50 :> "Line failure: average voltage" @@
    55 :> "DC link voltage error" @@
    56 :> "SPI Shutdown" @@
    57 :> "Waiting for reactivation" @@
    58 :> "Control board overtemperature" @@
    60 :> "Generator voltage too high" @@
    61 :> "External limit" @@
    62 :> "Standalone mode" @@
    63 :> "Power reduction P(f)" @@
    64 :> "Output current limiting" @@
    65 :> "ROCOF error" @@
    67 :> "Power section 1 error" @@
    68 :> "Power section 2 error" @@
    69 :> "Power section 3 error" @@
    70 :> "Fan 1 error" @@
    71 :> "Fan 2 error" @@
    72 :> "Fan 3 error" @@
    73 :> "Grid failure: Islanding" @@
    74 :> "External reactive power request" @@
    78 :> "Resid. current shutdown (AFI)" @@
    79 :> "Insulation measurement" @@
    80 :> "Insulation meas. not possible" @@
    81 :> "Protect. shutdown grid voltage L1" @@
    82 :> "Protect. shutdown grid voltage L2" @@
    83 :> "Protect. shutdown grid voltage L3" @@
    84 :> "Protect. shutdown overv. DC link" @@
    85 :> "Protect. shutdown underv. DC link" @@
    86 :> "Protect. shutdown unbal. DC link" @@
    87 :> "Protect. shutdown overcurrent L1" @@
    88 :> "Protect. shutdown overcurrent L2" @@
    89 :> "Protect. shutdown overcurrent L3" @@
    90 :> "Protect. shutdown voltage drop 5V" @@
    91 :> "Protect. shutdown voltage drop 2.5V" @@
    92 :> "Protect. shutdown voltage drop 1.5V" @@
    93 :> "Self test error buffer 1" @@
    94 :> "Self test error buffer 2" @@
    95 :> "Self test error relay 1" @@
    96 :> "Self test error relay 2" @@
    97 :> "Protect. shutdown HW overcurrent" @@
    98 :> "Protect. shutdown HW gate driver" @@
    99 :> "Protect. shutdown HW buffer-enable" @@
    100 :> "Protect. shutdown HW overtemperature" @@
    101 :> "Plausibility fault temperature" @@
    102 :> "Plausibility fault efficiency" @@
    103 :> "Plausibility fault DC link" @@
    104 :> "Plausibility fault RCD module" @@
    105 :> "Plausibility fault relay" @@
    106 :> "Plausibility fault DCDC converter" @@
    108 :> "Line failure: overvoltage L1" @@
    109 :> "Line failure: overvoltage L2" @@
    110 :> "Line failure: overvoltage L3" @@
    111 :> "Line failure: undervoltage L1" @@
    112 :> "Line failure: undervoltage L2" @@
    113 :> "Line failure: undervoltage L3" @@
    114 :> "Communication error DC/DC" @@
    115 :> "Negative DC current 1" @@
    116 :> "Negative DC current 2" @@
    117 :> "Negative DC current 3" @@
    118 :> "DC overvoltage 1" @@
    119 :> "DC overvoltage 2" @@
    120 :> "DC overvoltage 3" @@
    121 :> "Door opened" @@
    125 :> "Error relay control" @@
    126 :> "Error RCD measurement" @@
    127 :> "Error AC voltage measurement" @@
    128 :> "Error internal memory 1" @@
    129 :> "Power reduction P(U)" @@
    130 :> "Self-test error AFCI module" @@
    131 :> "Arc detected on DC1" @@
    132 :> "Arc detected on DC2" @@
    133 :> "Arc detected on DC3" @@
    134 :> "AFCI power supply critical" @@
    135 :> "Internal AFCI ADC failed" @@
    136 :> "AFCI algorithm failed" @@
    138 :> "AFCI parameters corrupted" @@
    139 :> "Error external memory 1" @@
    140 :> "Not enough AFCI DC inputs" @@
    141 :> "Error controller output pin" @@
    142 :> "AFCI activation failed" @@
    148 :> "Error external memory 1" @@
    149 :> "Communication error AFCI module" @@
    150 :> "Protect. shutdown voltage drop 1.65V" @@
    151 :> "Input current limitation DC1" @@
    152 :> "Input current limitation DC2" @@
    153 :> "Input current limitation DC3" @@
    154 :> "Input power limitation DC1" @@
    155 :> "Input power limitation DC2" @@
    156 :> "Input power limitation DC3" @@
    160 :> "Failure: Grid relay L1" @@
    161 :> "Failure: Grid relay L2" @@
    162 :> "Failure: Grid relay L3" @@
    163 :> "Failure: Grid relay N" @@
    164 :> "Failure: Filter relay L1" @@
    165 :> "Failure: Filter relay L2" @@
    166 :> "Failure: Filter relay L3" @@
    167 :> "Failure: Filter relay N"

t == [i \in 0..(T_LEN - 1) |-> IF i \in DOMAIN t_map THEN t_map[i] ELSE ""]

\* t[i] of a Python list: a negative index counts from the end, an index
\* outside [-168, 167] raises IndexError
StatusLookup(i) ==
    IF i >= 0 /\ i < T_LEN THEN [raised |-> FALSE, value |-> t[i]]
    ELSE IF i < 0 /\ i >= -T_LEN THEN [raised |-> FALSE, value |-> t[T_LEN + i]]
    ELSE [raised |-> TRUE, value |-> ""]

(***************************************************************************)
(* Scaling of the raw registers                                            *)
(***************************************************************************)
\* round(raw / (65535 / range), 3), in thousandths, for raw >= 0
Scale3(raw, range) ==
    LET q == (raw * range) \div 65535
        r == (raw * range) % 65535
    IN  q * 1000 + ((2 * r * 1000 + 65535) \div (2 * 65535))

\* round(raw / (65535 / 100000)), in watts, for raw >= 0
ScalePower(raw) ==
    LET q == (raw * 20000) \div 13107
        r == (raw * 20000) % 13107
    IN  IF 2 * r >= 13107 THEN q + 1 ELSE q

\* The ten electrical writes in the order of the code: key, field, range
ElectricalWrites ==
    << <<"generatorVoltage1", 1, 1600>>, <<"generatorVoltage2", 2, 1600>>,
       <<"generatorCurrent1", 6, 200>>,  <<"generatorCurrent2", 7, 200>>,
       <<"gridVoltage1", 3, 1600>>,      <<"gridVoltage2", 4, 1600>>,
       <<"gridVoltage3", 5, 1600>>,      <<"gridCurrent1", 8, 200>>,
       <<"gridCurrent2", 9, 200>>,       <<"gridCurrent3", 10, 200>> >>

\* Writes i.. of ElectricalWrites into values; float() of a field that is no
\* number raises and leaves the writes made so far
RECURSIVE DecodeElectrical(_, _, _)
DecodeElectrical(values, ds, i) ==
    IF i > Len(ElectricalWrites) THEN [raised |-> FALSE, values |-> values]
    ELSE LET w == ElectricalWrites[i]
             f == Field(ds, w[2])
         IN  IF ~f.num THEN [raised |-> TRUE, values |-> values]
             ELSE DecodeElectrical(Put(values, w[1], Scale3(f.v, w[3])), ds, i + 1)

\* Decode with max_power set to the power of the record, larger or not
DecodeMaxIsLast(values, ds, now) ==
    LET v0 == PutExtra(values, "last_updated", now)
        e == DecodeElectrical(v0, ds, 1)
        f12 == Field(ds, 12)
        f13 == Field(ds, 13)
        f11 == Field(ds, 11)
        v1 == PutExtra(e.values, "temp", f12.v)
        st == StatusLookup(f13.v)
        v2 == PutExtra(PutExtra(v1, "status", st.value), "status_code", f13.v)
        power == ScalePower(f11.v)
        v3 == Put(v2, "currentPower", power)
        v4 == PutExtra(v3, "max_power", power)
    IN  IF e.raised THEN [raised |-> TRUE, values |-> e.values, power |-> 0]
        ELSE IF ~f12.num THEN [raised |-> TRUE, values |-> e.values, power |-> 0]
        ELSE IF ~(f13.num /\ f13.int) \/ st.raised
             THEN [raised |-> TRUE, values |-> v1, power |-> 0]
        ELSE IF ~f11.num THEN [raised |-> TRUE, values |-> v2, power |-> 0]
        ELSE [raised |-> FALSE, values |-> v4, power |-> power]

\* Parsing / Skalierung of a 14-field record, from the write of last_updated
\* to the update of max_power.  raised: an exception left the writes made so
\* far in values.  power: the value stored as node["max_power"].
Decode(values, ds, now) ==
    LET v0 == PutExtra(values, "last_updated", now)
        e == DecodeElectrical(v0, ds, 1)
        f12 == Field(ds, 12)
        f13 == Field(ds, 13)
        f11 == Field(ds, 11)
        v1 == PutExtra(e.values, "temp", f12.v)
        st == StatusLookup(f13.v)
        v2 == PutExtra(PutExtra(v1, "status", st.value), "status_code", f13.v)
        power == ScalePower(f11.v)
        v3 == Put(v2, "currentPower", power)
        v4 == IF power > v3["extra"]["max_power"]
              THEN PutExtra(v3, "max_power", power) ELSE v3
    IN  IF e.raised THEN [raised |-> TRUE, values |-> e.values, power |-> 0]
        ELSE IF ~f12.num THEN [raised |-> TRUE, values |-> e.values, power |-> 0]
        ELSE IF ~(f13.num /\ f13.int) \/ st.raised
             THEN [raised |-> TRUE, values |-> v1, power |-> 0]
        ELSE IF ~f11.num THEN [raised |-> TRUE, values |-> v2, power |-> 0]
        ELSE [raised |-> FALSE, values |-> v4, power |-> power]

(***************************************************************************)
(* What the device can answer                                              *)
(***************************************************************************)
\* SAMPLE_REALTIME_CSV of the tests
SampleRecord ==
    << Num("0", 0), Num("32768", 32768), Num("32768", 32768), Num("32768", 32768),
       Num("32768", 32768), Num("32768", 32768), Num("16384", 16384),
       Num("16384", 16384), Num("16384", 16384), Num("16384", 16384),
       Num("16384", 16384), Num("32768", 32768), Num("2500", 2500), Num("4", 4) >>

\* a second record, every register different, less power
LowRecord ==
    << Num("0", 0), Num("100", 100), Num("100", 100), Num("100", 100),
       Num("100", 100), Num("100", 100), Num("100", 100),
       Num("100", 100), Num("100", 100), Num("100", 100),
       Num("100", 100), Num("16384", 16384), Num("2000", 2000), Num("5", 5) >>

\* 14 fields, the power field no number
BadPowerRecord == [LowRecord EXCEPT ![12] = Txt("n/a")]

\* a body that splits into one field ("".split(";") is [""])
EmptyBody == << Txt("") >>

RtAnswer(kind, status, parts) == [kind |-> kind, status |-> status, parts |-> parts]

\* answers that end an attempt without a record
RtFailures ==
    { RtAnswer("timeout", 0, EmptyBody), RtAnswer("error", 0, EmptyBody),
      RtAnswer("ok", 200, EmptyBody),
      RtAnswer("ok", 200, SubSeq(SampleRecord, 1, 13)) }

RtAnswers ==
    RtFailures \cup
    { RtAnswer("ok", 200, SampleRecord), RtAnswer("ok", 200, LowRecord),
      RtAnswer("ok", 200, BadPowerRecord), RtAnswer("ok", 500, LowRecord) }

\* a line of SAMPLE_DAILY_CSV
DailyLine(energy) ==
    << Txt("blueplanet 10.0 TL3"), Txt("BPI123456789"), Txt("20260222"),
       Txt("120000"), energy, Txt("0"), Txt("0") >>

DayAnswer(kind, status, lines) == [kind |-> kind, status |-> status, lines |-> lines]

DayAnswers ==
    { DayAnswer("timeout", 0, << EmptyBody >>),
      DayAnswer("error", 0, << EmptyBody >>),
      DayAnswer("ok", 404, << DailyLine(Dec("5.432", 5432)), DailyLine(Dec("5.567", 5567)) >>),
      DayAnswer("ok", 200, << EmptyBody >>),
      DayAnswer("ok", 200, << DailyLine(Dec("5.432", 5432)) >>),
      DayAnswer("ok", 200, << DailyLine(Dec("5.432", 5432)), SubSeq(DailyLine(Dec("5.567", 5567)), 1, 4) >>),
      DayAnswer("ok", 200, << DailyLine(Dec("5.432", 5432)), DailyLine(Txt("-")) >>),
      DayAnswer("ok", 200, << DailyLine(Dec("5.432", 5432)), DailyLine(Dec("5.567", 5567)) >>) }

RECURSIVE LineLen(_)
LineLen(cols) ==
    IF cols = <<>> THEN 0
    ELSE Len(Head(cols).s) + (IF Len(cols) > 1 THEN 1 ELSE 0) + LineLen(Tail(cols))

\* len(text) of a body given as its CR-separated lines
RECURSIVE TextLen(_)
TextLen(lines) ==
    IF lines = <<>> THEN 0
    ELSE LineLen(Head(lines)) + (IF Len(lines) > 1 THEN 1 ELSE 0) + TextLen(Tail(lines))

(***************************************************************************)
(* get_coordinator                                                         *)
(***************************************************************************)
UNKNOWN == <<"u", "n", "k", "n", "o", "w", "n">>

\* nothing outside the poll engine has run
OutsideIdle ==
    /\ flags = EmptyDict
    /\ recorder = EmptyDict
    /\ requests = <<>>
    /\ sensors = EmptyDict
    /\ flow = EmptyDict

\* ip = config.get(CONF_KACO_URL): none is Python's None
ConfigIp(config) ==
    IF Has(config, "url") THEN [none |-> FALSE, s |-> config["url"]]
    ELSE [none |-> TRUE, s |-> <<>>]

\* NodeKey with one key for every address
NodeKeyShared(ip) == UNKNOWN

\* ip or "unknown"
NodeKey(ip) == IF ip.none \/ ip.s = <<>> THEN UNKNOWN ELSE ip.s

\* base_interval, in milliseconds
BaseInterval(config) ==
    IF Has(config, "interval") THEN Seconds(config["interval"])
    ELSE Seconds(DEFAULT_INTERVAL)

\* kwh_interval, in seconds
KwhInterval(config) ==
    IF Has(config, "kwh_interval") THEN config["kwh_interval"]
    ELSE DEFAULT_KWH_INTERVAL

\* The node dict of a new address with its coordinator and the closure of
\* async_get_datas.  ip, base_interval, kwh_interval, entry: the closure;
\* fail_count, work_interval, values, node (the other keys of the node dict):
\* the node; update_interval: the coordinator; pc, attempt, now: the position
\* and the locals of the running cycle.  requests, rt_bad, rt_record, log, pre
\* and outcome record what the current or last cycle did and the state it
\* started from: the GETs it sent, the number of realtime answers without 14
\* fields, whether an answer had 14 fields, the severity it logged at, the
\* node before the cycle (with the "now" of the cycle and whether the cycle
\* before it sent a daily GET), and how the cycle ended.  rt_status is the
\* HTTP status of the answer that gave the record of the cycle (0: none),
\* rt_code the status field of that record.  last_update_success is the
\* attribute of the coordinator (set when it is made: async_set_updated_data).
NewPoll(config, e) ==
    LET values == BootstrapDefaults(EmptyDict) IN
    [ ip |-> ConfigIp(config),
      base_interval |-> BaseInterval(config),
      kwh_interval |-> KwhInterval(config),
      entry |-> e,
      fail_count |-> 0,
      work_interval |-> BaseInterval(config),
      values |-> values,
      node |-> EmptyDict,
      update_interval |-> BaseInterval(config),
      pc |-> "idle",
      attempt |-> 0,
      now |-> 0,
      requests |-> <<>>,
      rt_bad |-> 0,
      rt_record |-> FALSE,
      log |-> "none",
      rt_status |-> 0,
      rt_code |-> Txt(""),
      last_update_success |-> TRUE,
      pre |-> [fail_count |-> 0, work_interval |-> BaseInterval(config),
               values |-> values, now |-> 0, day_sent |-> FALSE],
      outcome |-> "none" ]

\* get_coordinator that makes a new node and coordinator on every call
GetCoordinatorAlwaysNew(e) ==
    /\ e \in DOMAIN entries
    /\ entries[e].coordinator = 0
    /\ LET config == entries[e].data
           key == NodeKey(ConfigIp(config))
           id == Cardinality(DOMAIN poll) + 1
       IN  /\ entries' = [entries EXCEPT ![e].coordinator = id, ![e].found = 0]
           /\ registry' = (key :> id) @@ registry
           /\ poll' = (id :> NewPoll(config, e)) @@ poll
    /\ UNCHANGED <<clock, bo, outside>>

\* get_coordinator(hass, entry.data, entry), called by the platform setup of
\* a config entry: creates node and coordinator for a new key, returns the
\* stored coordinator for a known one.  found is the fail_count of the node
\* when the call returned.
GetCoordinator(e) ==
    /\ e \in DOMAIN entries
    /\ entries[e].coordinator = 0
    /\ LET config == entries[e].data
           key == NodeKey(ConfigIp(config))
           id == Cardinality(DOMAIN poll) + 1
       IN  IF key \in DOMAIN registry
           THEN /\ entries' = [entries EXCEPT ![e].coordinator = registry[key],
                                               ![e].found = poll[registry[key]].fail_count]
                /\ UNCHANGED <<registry, poll>>
           ELSE /\ entries' = [entries EXCEPT ![e].coordinator = id, ![e].found = 0]
                /\ registry' = (key :> id) @@ registry
                /\ poll' = (id :> NewPoll(config, e)) @@ poll
    /\ UNCHANGED <<clock, bo, outside>>

\* A node that is in no registry and whose coordinator no platform holds is
\* garbage once no cycle of it runs: a running cycle is a task that holds the
\* closure, and with it the node, until it returns.  The id of a node that is
\* dropped at rest is kept (ids are not used again) with a record that holds
\* nothing; a node that is dropped with a cycle in flight keeps its record,
\* which that cycle goes on to write.
Released(p) ==
    LET values == BootstrapDefaults(EmptyDict) IN
    [p EXCEPT !.pc = "released", !.outcome = "none",
              !.fail_count = 0, !.work_interval = p.base_interval,
              !.update_interval = p.base_interval,
              !.values = values, !.node = EmptyDict,
              !.attempt = 0, !.now = 0, !.requests = <<>>, !.rt_bad = 0,
              !.rt_record = FALSE, !.rt_status = 0, !.log = "none",
              !.rt_code = Txt(""), !.last_update_success = TRUE,
              !.pre = [fail_count |-> 0, work_interval |-> p.base_interval,
                       values |-> values, now |-> 0, day_sent |-> FALSE]]

\* dict(a) == dict(b)
SameDict(a, b) == DOMAIN a = DOMAIN b /\ \A key \in DOMAIN a : a[key] = b[key]

\* hass.config_entries.async_update_entry(entry, data=..., options=...) of the
\* host (called at lines 107, 146 and 298): the entry takes the values; when
\* one of them differs from what it held, every registered update listener
\* is scheduled as a task (calls counts the tasks not yet run).  An entry of
\* a specification that keeps no options has its data alone.
UpdateEntry(entry, data, options) ==
    IF Has(entry, "options")
    THEN LET changed == ~SameDict(entry.data, data) \/ ~SameDict(entry.options, options)
         IN  [entry EXCEPT !.data = data, !.options = options,
                           !.calls = IF changed /\ entry.listener THEN @ + 1 ELSE @]
    ELSE [entry EXCEPT !.data = data]

\* config_entry.async_on_unload(...) (line 112): the host drops the update
\* listener when the entry has unloaded
OnUnload(entry) ==
    IF Has(entry, "listener") THEN [entry EXCEPT !.listener = FALSE] ELSE entry

\* async_unload_entry: when the platform unloaded, the node stored under the
\* address of the entry is dropped.  The key that is looked up is the address
\* itself, not ip or "unknown".  unload_ok = FALSE changes nothing.
Unload(e, unload_ok) ==
    /\ e \in DOMAIN entries
    /\ entries[e].coordinator # 0
    /\ LET ip == ConfigIp(entries[e].data)
           held == entries[e].coordinator
           left == IF ~ip.none /\ ip.s \in DOMAIN registry
                   THEN [key \in DOMAIN registry \ {ip.s} |-> registry[key]]
                   ELSE registry
           garbage == /\ \A key \in DOMAIN left : left[key] # held
                      /\ \A o \in DOMAIN entries \ {e} : entries[o].coordinator # held
       IN  IF unload_ok
           THEN /\ entries' = [entries EXCEPT ![e] =
                                  OnUnload([@ EXCEPT !.coordinator = 0, !.unloaded = TRUE])]
                /\ registry' = left
                /\ poll' = IF garbage /\ poll[held].pc = "idle"
                            THEN [poll EXCEPT ![held] = Released(@)]
                            ELSE poll
           ELSE UNCHANGED <<entries, registry, poll>>
    /\ UNCHANGED <<clock, bo, outside>>

(***************************************************************************)
(* async_get_datas                                                         *)
(***************************************************************************)
\* Blank without the test of ip.strip()
BlankNoStrip(ip) == ip.none \/ ip.s = <<>>

\* not ip or not isinstance(ip, str) or not ip.strip()
Blank(ip) == ip.none \/ ip.s = <<>> \/ Strip(ip.s) = <<>>

\* the return of a cycle: its locals are dropped.  The coordinator sets
\* last_update_success when the update method returned and clears it when
\* it raised; a cancelled refresh leaves it.
EndCycle(p, outcome) ==
    [p EXCEPT !.pc = "idle", !.outcome = outcome, !.now = 0, !.attempt = 0,
              !.last_update_success = IF outcome = "raised" THEN FALSE
                                      ELSE IF outcome = "cancelled" THEN @
                                      ELSE TRUE]

\* KacoConnectionSensor.native_value (sensor.py lines 293-297) for the
\* coordinator of poll object p
ConnectionStatus(p) == IF p.last_update_success THEN "Online" ELSE "Offline"

\* Lines 181-209: bootstrap, the guard, "now", the default of last_kWh_Update
\* and the first realtime GET
PollStart(p, now) ==
    LET values == BootstrapDefaults(p.values)
        q == [p EXCEPT !.pre = [fail_count |-> p.fail_count,
                                work_interval |-> p.work_interval,
                                values |-> p.values,
                                now |-> now,
                                day_sent |-> \E i \in 1..Len(p.requests) :
                                                 p.requests[i] = "day"],
                       !.requests = <<>>, !.rt_bad = 0, !.rt_record = FALSE,
                       !.rt_status = 0, !.rt_code = Txt(""), !.log = "none"]
    IN  IF Blank(p.ip)
        THEN EndCycle([q EXCEPT !.values = values, !.log = "warning"], "guard")
        ELSE [q EXCEPT !.values =
                           IF ~Has(values["extra"], "last_kWh_Update")
                           THEN PutExtra(values, "last_kWh_Update", now - p.kwh_interval)
                           ELSE values,
                       !.now = now, !.attempt = 0, !.pc = "rt_wait",
                       !.requests = <<"rt">>, !.outcome = "running"]

\* Lines 318-330: the handler of "except Exception".  _apply_backoff raising
\* inside the handler leaves the function as an exception.
ExceptHandler(p, jitter) ==
    LET fc == p.fail_count + 1
        b == ApplyBackoff(p.work_interval, fc, jitter)
    IN  IF b.raised
        THEN EndCycle([p EXCEPT !.fail_count = fc, !.log = "error"], "raised")
        ELSE EndCycle([p EXCEPT !.fail_count = fc, !.log = "error",
                                !.work_interval = b.value,
                                !.update_interval = b.value], "exception")

\* Exhausted with the snapshot cleared to its defaults
ExhaustedClearsSnapshot(p, jitter) ==
    LET fc == p.fail_count + 1
        b == ApplyBackoff(p.work_interval, fc, jitter)
    IN  IF b.raised
        THEN ExceptHandler([p EXCEPT !.fail_count = fc, !.log = LogTimeout(fc)], jitter)
        ELSE EndCycle([p EXCEPT !.fail_count = fc, !.log = LogTimeout(fc),
                                !.work_interval = b.value,
                                !.update_interval = b.value,
                                !.values = BootstrapDefaults(EmptyDict)], "exhausted")

\* Exhausted with a daily GET sent after the failure is booked
ExhaustedSendsDay(p, jitter) ==
    LET fc == p.fail_count + 1
        b == ApplyBackoff(p.work_interval, fc, jitter)
    IN  IF b.raised
        THEN ExceptHandler([p EXCEPT !.fail_count = fc, !.log = LogTimeout(fc)], jitter)
        ELSE [p EXCEPT !.fail_count = fc, !.log = LogTimeout(fc),
                       !.work_interval = b.value, !.update_interval = b.value,
                       !.pc = "day_wait", !.requests = Append(@, "day")]

\* Lines 221-231: no attempt gave a record.  The block is inside the try, so
\* an exception of _apply_backoff goes to the handler.
Exhausted(p, jitter) ==
    LET fc == p.fail_count + 1
        b == ApplyBackoff(p.work_interval, fc, jitter)
    IN  IF b.raised
        THEN ExceptHandler([p EXCEPT !.fail_count = fc, !.log = LogTimeout(fc)], jitter)
        ELSE EndCycle([p EXCEPT !.fail_count = fc, !.log = LogTimeout(fc),
                                !.work_interval = b.value,
                                !.update_interval = b.value], "exhausted")

\* Finish without the write of the coordinator's interval
FinishNoInterval(p) == EndCycle(p, "success")

\* Lines 332-337
Finish(p) == EndCycle([p EXCEPT !.update_interval = p.work_interval], "success")

\* GotRecord without the reset of work_interval
GotRecordKeepInterval(p, ds, jitter) ==
    LET p1 == [p EXCEPT !.fail_count = 0]
        d == Decode(p.values, ds, p.now)
        p2 == [p1 EXCEPT !.values = d.values, !.node = Put(@, "max_power", d.power)]
        need_day ==
            \/ p.now >= d.values["extra"]["last_kWh_Update"] + p.kwh_interval
            \/ ~Has(d.values, "energyToday")
    IN  IF d.raised THEN ExceptHandler([p1 EXCEPT !.values = d.values], jitter)
        ELSE IF need_day
             THEN [p2 EXCEPT !.pc = "day_wait", !.requests = Append(@, "day")]
             ELSE Finish(p2)

\* GotRecord with the daily file requested in every cycle
GotRecordAlwaysDay(p, ds, jitter) ==
    LET p1 == [p EXCEPT !.fail_count = 0, !.work_interval = p.base_interval]
        d == Decode(p.values, ds, p.now)
        p2 == [p1 EXCEPT !.values = d.values, !.node = Put(@, "max_power", d.power)]
    IN  IF d.raised THEN ExceptHandler([p1 EXCEPT !.values = d.values], jitter)
        ELSE [p2 EXCEPT !.pc = "day_wait", !.requests = Append(@, "day")]

\* GotRecord with the daily file requested only while energyToday is missing
GotRecordNoRefetch(p, ds, jitter) ==
    LET p1 == [p EXCEPT !.fail_count = 0, !.work_interval = p.base_interval]
        d == Decode(p.values, ds, p.now)
        p2 == [p1 EXCEPT !.values = d.values, !.node = Put(@, "max_power", d.power)]
        need_day == ~Has(d.values, "energyToday")
    IN  IF d.raised THEN ExceptHandler([p1 EXCEPT !.values = d.values], jitter)
        ELSE IF need_day
             THEN [p2 EXCEPT !.pc = "day_wait", !.requests = Append(@, "day")]
             ELSE Finish(p2)

\* Lines 233-265: a 14-field record.  The bookkeeping of success is written
\* first, then the record is decoded into values, then the daily file is
\* requested when it is due.
GotRecord(p, ds, jitter) ==
    LET p1 == [p EXCEPT !.fail_count = 0, !.work_interval = p.base_interval]
        d == Decode(p.values, ds, p.now)
        p2 == [p1 EXCEPT !.values = d.values, !.node = Put(@, "max_power", d.power)]
        need_day ==
            \/ p.now >= d.values["extra"]["last_kWh_Update"] + p.kwh_interval
            \/ ~Has(d.values, "energyToday")
    IN  IF d.raised THEN ExceptHandler([p1 EXCEPT !.values = d.values], jitter)
        ELSE IF need_day
             THEN [p2 EXCEPT !.pc = "day_wait", !.requests = Append(@, "day")]
             ELSE Finish(p2)

\* RtStep with one attempt more than the budget
RtStepOneMore(p, a, jitter) ==
    IF a.kind = "ok" /\ Len(a.parts) = FIELDS_REALTIME
    THEN GotRecord(p, a.parts, jitter)
    ELSE IF p.attempt < RETRY_PER_POLL + 1
         THEN [p EXCEPT !.attempt = @ + 1, !.requests = Append(@, "rt")]
         ELSE Exhausted(p, jitter)

\* Lines 206-219 for one answer: the record, the next attempt, or the end of
\* the loop.  The status of the answer is not read.
RtStep(p, a, jitter) ==
    IF a.kind = "ok" /\ Len(a.parts) = FIELDS_REALTIME
    THEN GotRecord(p, a.parts, jitter)
    ELSE IF p.attempt < RETRY_PER_POLL
         THEN [p EXCEPT !.attempt = @ + 1, !.requests = Append(@, "rt")]
         ELSE Exhausted(p, jitter)

\* DayValid without the test of the HTTP status
DayValidAnyStatus(a) ==
    /\ a.kind = "ok"
    /\ TextLen(a.lines) > 10
    /\ Len(a.lines) > 1
    /\ Len(a.lines[2]) > 4
    /\ a.lines[2][5].num

\* Lines 269-275 and the float() of line 276: the daily answer is used
DayValid(a) ==
    /\ a.kind = "ok"
    /\ a.status = 200
    /\ TextLen(a.lines) > 10
    /\ Len(a.lines) > 1
    /\ Len(a.lines[2]) > 4
    /\ a.lines[2][5].num

\* DayStep with a daily answer that is not used booked as a failure
DayStepFailureCounts(p, a) ==
    IF DayValid(a)
    THEN LET cols == a.lines[2]
             v1 == Put(p.values, "energyToday", cols[5].v)
             v2 == PutExtra(v1, "serialno", cols[2].s)
             v3 == PutExtra(v2, "model", cols[1].s)
             v4 == PutExtra(v3, "last_kWh_Update", p.now)
         IN  Finish([p EXCEPT !.values = v4,
                              !.node = Put(Put(@, "energyToday", cols[5].v),
                                           "serialno", cols[2].s)])
    ELSE EndCycle([p EXCEPT !.fail_count = @ + 1], "exception")

\* Lines 266-304 and 332-337 for the poll object
DayStep(p, a) ==
    IF DayValid(a)
    THEN LET cols == a.lines[2]
             v1 == Put(p.values, "energyToday", cols[5].v)
             v2 == PutExtra(v1, "serialno", cols[2].s)
             v3 == PutExtra(v2, "model", cols[1].s)
             v4 == PutExtra(v3, "last_kWh_Update", p.now)
         IN  Finish([p EXCEPT !.values = v4,
                              !.node = Put(Put(@, "energyToday", cols[5].v),
                                           "serialno", cols[2].s)])
    ELSE Finish(p)

\* PersistSerial without the test of the serial number the entry holds
PersistSerialAlways(data, p, a) ==
    IF /\ DayValid(a)
       /\ p.entry # 0
       /\ a.lines[2][2].s # ""
       /\ a.lines[2][2].s # "no_serial"
    THEN Put(data, "serial_number", a.lines[2][2].s)
    ELSE data

\* Lines 287-300: the serial number is stored in the config entry
PersistSerial(data, p, a) ==
    IF /\ DayValid(a)
       /\ p.entry # 0
       /\ a.lines[2][2].s # ""
       /\ a.lines[2][2].s # "no_serial"
       /\ ~(Has(data, "serial_number") /\ data["serial_number"] # "")
    THEN Put(data, "serial_number", a.lines[2][2].s)
    ELSE data

\* The node a cycle of closure k writes: the dict that get_coordinator bound
\* to "node" when it made the closure (line 170), whatever the registry holds
\* under the address by now.  ClosureNodeLookedUp reads the registry again.
ClosureNodeLookedUp(k) ==
    IF NodeKey(poll[k].ip) \in DOMAIN registry THEN registry[NodeKey(poll[k].ip)]
    ELSE k

ClosureNode(k) == k

\* no registry key and no platform leads to node k
Orphan(k) ==
    /\ \A key \in DOMAIN registry : registry[key] # k
    /\ \A e \in DOMAIN entries : entries[e].coordinator # k

\* The return of a cycle of a dropped node ends the task, the last holder of
\* the closure: the node is garbage.  Its record keeps how that cycle ended.
Settle(k, q) ==
    IF q.pc = "idle" /\ Orphan(k) THEN [Released(q) EXCEPT !.outcome = q.outcome]
    ELSE q

\* The scheduler calls async_get_datas; one cycle at a time per coordinator
Poll(k, cap) ==
    /\ k \in DOMAIN poll
    /\ poll[k].pc = "idle"
    /\ poll[k].fail_count < cap
    /\ poll' = [poll EXCEPT ![k] = PollStart(@, clock)]
    /\ UNCHANGED <<entries, registry, clock, bo, outside>>

\* the answer is a body of exactly 14 fields
HasRecord(a) == a.kind = "ok" /\ Len(a.parts) = FIELDS_REALTIME

\* The realtime GET of the running cycle ends with answer a
RtReply(k, a, jitter) ==
    /\ k \in DOMAIN poll
    /\ poll[k].pc = "rt_wait"
    /\ LET q == RtStep(poll[k], a, jitter) IN
        poll' = [poll EXCEPT ![ClosureNode(k)] = Settle(k,
                    [q EXCEPT
                        !.rt_bad = IF HasRecord(a) THEN @ ELSE @ + 1,
                        !.rt_record = HasRecord(a),
                        !.rt_status = IF HasRecord(a) THEN a.status ELSE @,
                        !.rt_code = IF HasRecord(a) THEN Field(a.parts, 13) ELSE @])]
    /\ UNCHANGED <<entries, registry, clock, bo, outside>>

\* The daily GET of the running cycle ends with answer a
DayReply(k, a) ==
    /\ k \in DOMAIN poll
    /\ poll[k].pc = "day_wait"
    /\ poll' = [poll EXCEPT ![ClosureNode(k)] = Settle(k, DayStep(poll[k], a))]
    /\ entries' = IF poll[k].entry \in DOMAIN entries
                  THEN LET new_data == PersistSerial(entries[poll[k].entry].data, poll[k], a)
                       IN  IF SameDict(new_data, entries[poll[k].entry].data)
                           THEN entries
                           ELSE [entries EXCEPT ![poll[k].entry] =
                                                    UpdateEntry(@, new_data, new_data)]
                  ELSE entries
    /\ UNCHANGED <<registry, clock, bo, outside>>

\* The task of the running cycle is cancelled at its await: CancelledError is
\* no Exception, no handler of the cycle runs
Cancel(k) ==
    /\ k \in DOMAIN poll
    /\ poll[k].pc \in {"rt_wait", "day_wait"}
    /\ poll' = [poll EXCEPT ![k] = EndCycle(@, "cancelled")]
    /\ UNCHANGED <<entries, registry, clock, bo, outside>>

Tick ==
    /\ clock < MaxClock
    /\ clock' = clock + 1
    /\ UNCHANGED <<entries, registry, poll, bo, outside>>

(***************************************************************************)
(* Specifications                                                          *)
(***************************************************************************)
Host == <<"1", "0", ".", "0", ".", "0", ".", "5">>

Cfg(url, interval, kwh) == [url |-> url, interval |-> interval, kwh_interval |-> kwh]

\* Configurations of the one entry of Spec: the intervals of the form are any
\* integers (vol.Coerce(int))
SpecConfigs ==
    { Cfg(Host, i, 1) : i \in {1, 110, 200} }
    \cup { Cfg(u, 20, 1) : u \in { <<>>, <<" ", "\t">> } }
    \cup { [interval |-> 20, kwh_interval |-> 1], [url |-> Host, kwh_interval |-> 2] }

NoBackoffCall == [c |-> 0, f |-> 0, j |-> 0, called |-> FALSE,
                  result |-> [raised |-> FALSE, value |-> 0]]

InitWith(configs) ==
    /\ entries \in { (1 :> [data |-> c, coordinator |-> 0, unloaded |-> FALSE,
                             found |-> 0]) : c \in configs }
    /\ registry = EmptyDict
    /\ poll = EmptyDict
    /\ clock = 0
    /\ OutsideIdle
    /\ bo = NoBackoffCall

Init == InitWith(SpecConfigs)

Next ==
    \/ \E e \in DOMAIN entries : GetCoordinator(e)
    \/ \E k \in DOMAIN poll : Poll(k, MaxFail)
    \/ \E k \in DOMAIN poll : \E a \in RtAnswers : \E j \in JitterDraws : RtReply(k, a, j)
    \/ \E k \in DOMAIN poll : \E a \in DayAnswers : DayReply(k, a)
    \/ \E k \in DOMAIN poll : Cancel(k)
    \/ Tick

Spec == Init /\ [][Next]_vars

(***************************************************************************)
(* SpecOutage: one endpoint whose device gives no record for the whole run  *)
(***************************************************************************)
\* configured base intervals, in seconds: below, within and above the bounds
OutageIntervals == {1, 20, 200}

OutageConfigs == { Cfg(Host, i, 1) : i \in OutageIntervals }

InitOutage == InitWith(OutageConfigs)

NextOutage ==
    \/ \E e \in DOMAIN entries : GetCoordinator(e)
    \/ \E k \in DOMAIN poll : Poll(k, MaxOutageFail)
    \/ \E k \in DOMAIN poll : \E a \in RtFailures : \E j \in JitterDraws : RtReply(k, a, j)

SpecOutage == InitOutage /\ [][NextOutage]_vars

(***************************************************************************)
(* SpecBackoff: _apply_backoff called on its own                           *)
(***************************************************************************)
\* current intervals, in milliseconds: below, at and above the bounds
BackoffCurrents == {0, 1, 4250, 5000, 20000, 104000, 120000, 138000}

InitBackoff ==
    /\ entries = EmptyDict
    /\ registry = EmptyDict
    /\ poll = EmptyDict
    /\ clock = 0
    /\ OutsideIdle
    /\ bo \in { [NoBackoffCall EXCEPT !.c = c, !.f = f, !.j = j] :
                  c \in BackoffCurrents, f \in 1..MaxBackoffFail, j \in JitterDraws }

CallApplyBackoff ==
    /\ ~bo.called
    /\ bo' = [bo EXCEPT !.called = TRUE, !.result = ApplyBackoff(bo.c, bo.f, bo.j)]
    /\ UNCHANGED <<entries, registry, poll, clock, outside>>

NextBackoff == CallApplyBackoff

SpecBackoff == InitBackoff /\ [][NextBackoff]_vars

(***************************************************************************)
(* SpecLifecycle: two config entries that are set up, polled and unloaded   *)
(***************************************************************************)
Host2 == <<"1", "0", ".", "0", ".", "0", ".", "6">>

\* two inverters, an empty address and an address of one blank
LifeConfigs ==
    { Cfg(Host, 20, 1), Cfg(Host2, 110, 1), Cfg(<<>>, 20, 1), Cfg(<<" ">>, 20, 1) }

LifeRtAnswers == { RtAnswer("timeout", 0, EmptyBody), RtAnswer("ok", 200, SampleRecord) }

LifeDayAnswers ==
    { DayAnswer("ok", 200, << DailyLine(Dec("5.432", 5432)), DailyLine(Dec("5.567", 5567)) >>) }

\* the jitter draw of the failures of this specification
LifeJitterDraws == {JITTER_FRACTION_PERMILLE}

InitLifecycle ==
    /\ entries \in { (1 :> [data |-> c1, coordinator |-> 0, unloaded |-> FALSE,
                             found |-> 0])
                      @@ (2 :> [data |-> c2, coordinator |-> 0, unloaded |-> FALSE,
                                found |-> 0]) :
                       c1 \in LifeConfigs, c2 \in LifeConfigs }
    /\ registry = EmptyDict
    /\ poll = EmptyDict
    /\ clock = 0
    /\ OutsideIdle
    /\ bo = NoBackoffCall

\* a coordinator refreshes while a platform listens to it
Listened(k) == \E e \in DOMAIN entries : entries[e].coordinator = k

\* no cycle of the coordinator of entry e is running
AtRest(e) ==
    entries[e].coordinator \in DOMAIN poll => poll[entries[e].coordinator].pc = "idle"

NextLifecycle ==
    \/ \E e \in DOMAIN entries : Cardinality(DOMAIN poll) < MaxNodes /\ GetCoordinator(e)
    \/ \E e \in DOMAIN entries : \E ok \in BOOLEAN : AtRest(e) /\ Unload(e, ok)
    \/ \E k \in DOMAIN poll : Listened(k) /\ Poll(k, MaxLifeFail)
    \/ \E k \in DOMAIN poll : \E a \in LifeRtAnswers : \E j \in LifeJitterDraws : RtReply(k, a, j)
    \/ \E k \in DOMAIN poll : \E a \in LifeDayAnswers : DayReply(k, a)

SpecLifecycle == InitLifecycle /\ [][NextLifecycle]_vars

(***************************************************************************)
(* SpecInFlight: one entry that is unloaded and set up again at any moment,  *)
(* also while a cycle of its coordinator is running                         *)
(***************************************************************************)
InFlightConfigs == { Cfg(Host, 20, 1) }

InitInFlight ==
    /\ entries \in { (1 :> [data |-> c1, coordinator |-> 0, unloaded |-> FALSE,
                             found |-> 0]) : c1 \in InFlightConfigs }
    /\ registry = EmptyDict
    /\ poll = EmptyDict
    /\ clock = 0
    /\ OutsideIdle
    /\ bo = NoBackoffCall

\* the timer of a coordinator runs while a platform listens to it; the
\* answers of a running cycle arrive whether or not anyone still listens
NextInFlight ==
    \/ \E e \in DOMAIN entries : Cardinality(DOMAIN poll) < MaxInFlightNodes /\ GetCoordinator(e)
    \/ \E e \in DOMAIN entries : \E ok \in BOOLEAN : Unload(e, ok)
    \/ \E k \in DOMAIN poll : Listened(k) /\ Poll(k, MaxLifeFail)
    \/ \E k \in DOMAIN poll : \E a \in LifeRtAnswers : \E j \in LifeJitterDraws : RtReply(k, a, j)
    \/ \E k \in DOMAIN poll : \E a \in LifeDayAnswers : DayReply(k, a)

SpecInFlight == InitInFlight /\ [][NextInFlight]_vars

(***************************************************************************)
(* SpecSerial: an entry with or without a serial number, and an inverter    *)
(* whose daily file names one serial number or another                      *)
(***************************************************************************)
\* the daily file is due in every cycle
SerialCfg == Cfg(Host, 20, 0)

SerialConfigs ==
    { SerialCfg, Put(SerialCfg, "serial_number", ""),
      Put(SerialCfg, "serial_number", "KACO0001") }

\* the second line of a daily file that names the given serial number
SerialLine(serial) == [DailyLine(Dec("5.567", 5567)) EXCEPT ![2] = Txt(serial)]

SerialDayAnswers ==
    { DayAnswer("timeout", 0, << EmptyBody >>),
      DayAnswer("ok", 200, << DailyLine(Dec("5.432", 5432)),
                              [SerialLine("BPI987654321") EXCEPT ![5] = Txt("-")] >>) }
    \cup { DayAnswer("ok", 200, << DailyLine(Dec("5.432", 5432)), SerialLine(s) >>) :
              s \in {"BPI123456789", "BPI987654321", "", "no_serial"} }

InitSerial == InitWith(SerialConfigs)

NextSerial ==
    \/ \E e \in DOMAIN entries : GetCoordinator(e)
    \/ \E k \in DOMAIN poll : Poll(k, MaxLifeFail)
    \/ \E k \in DOMAIN poll : \E a \in LifeRtAnswers : \E j \in LifeJitterDraws : RtReply(k, a, j)
    \/ \E k \in DOMAIN poll : \E a \in SerialDayAnswers : DayReply(k, a)

SpecSerial == InitSerial /\ [][NextSerial]_vars

(***************************************************************************)
(* SpecBootstrap: _bootstrap_defaults called on its own, twice in a row     *)
(***************************************************************************)
\* a key that is present with value v, or absent (v is not read then)
Present(v) == [has |-> TRUE, v |-> v]
Absent(v) == [has |-> FALSE, v |-> v]
WithKey(d, k, o) == IF o.has THEN Put(d, k, o.v) ELSE d

\* the "extra" records of a prior state: each default field absent, at its
\* default or at another value, with or without a field that has no default
BootstrapExtras ==
    { WithKey(WithKey(WithKey(WithKey(EmptyDict, "max_power", m), "serialno", sn),
                      "model", mo), "last_updated", lu) :
        m \in {Absent(0), Present(0), Present(5000)},
        sn \in {Absent(""), Present("no_serial"), Present("BPI123456789")},
        mo \in {Absent(""), Present("blueplanet 10.0 TL3")},
        lu \in {Absent(0), Present(1)} }

\* the arguments: None, and dicts with or without "extra" and a measurement
BootstrapInputs ==
    { [none |-> TRUE, existing |-> EmptyDict] }
    \cup { [none |-> FALSE, existing |-> WithKey(WithKey(EmptyDict, "extra", x),
                                                "currentPower", cp)] :
              x \in {Absent(EmptyDict)} \cup { Present(e) : e \in BootstrapExtras },
              cp \in {Absent(0), Present(25000)} }

InitBootstrap ==
    /\ entries = EmptyDict
    /\ registry = EmptyDict
    /\ poll = EmptyDict
    /\ clock = 0
    /\ OutsideIdle
    /\ bo \in { [none |-> i.none, existing |-> i.existing, calls |-> 0,
                  prev |-> i.existing, result |-> i.existing] :
                  i \in BootstrapInputs }

\* values = _bootstrap_defaults(existing), then the same on its result, as
\* get_coordinator and every cycle do
CallBootstrapDefaults ==
    /\ bo.calls < 2
    /\ bo' = [bo EXCEPT !.calls = @ + 1, !.prev = bo.result,
                         !.result = BootstrapDefaults(bo.result)]
    /\ UNCHANGED <<entries, registry, poll, clock, outside>>

NextBootstrap == CallBootstrapDefaults

SpecBootstrap == InitBootstrap /\ [][NextBootstrap]_vars

(***************************************************************************)
(* SpecRecords: one endpoint whose device answers with records of many     *)
(* status codes, with a record that does not decode, or not at all         *)
(***************************************************************************)
\* SAMPLE_REALTIME_CSV with another status field
StatusRecord(code) == [SampleRecord EXCEPT ![14] = code]

\* status fields: "Feed-in mode", a gap of the table, its last index, the
\* index behind it, a byte of all ones, and minus one
StatusCodes ==
    { Num("4", 4), Num("5", 5), Num("167", 167), Num("168", 168),
      Num("255", 255), Num("-1", -1) }

\* a record with a known status whose power field is no number
BadRecord == [StatusRecord(Num("4", 4)) EXCEPT ![12] = Txt("n/a")]

RecordsRtAnswers ==
    { RtAnswer("timeout", 0, EmptyBody), RtAnswer("ok", 200, BadRecord) }
    \cup { RtAnswer("ok", 200, StatusRecord(c)) : c \in StatusCodes }

RecordsDayAnswers ==
    { DayAnswer("timeout", 0, << EmptyBody >>),
      DayAnswer("ok", 200, << DailyLine(Dec("5.432", 5432)), DailyLine(Dec("5.567", 5567)) >>) }

RecordsJitterDraws == {0}

InitRecords == InitWith({ Cfg(Host, 20, 1) })

NextRecords ==
    \/ \E e \in DOMAIN entries : GetCoordinator(e)
    \/ \E k \in DOMAIN poll : Poll(k, MaxRecordsFail)
    \/ \E k \in DOMAIN poll : \E a \in RecordsRtAnswers : \E j \in RecordsJitterDraws :
          RtReply(k, a, j)
    \/ \E k \in DOMAIN poll : \E a \in RecordsDayAnswers : DayReply(k, a)

SpecRecords == InitRecords /\ [][NextRecords]_vars
(***************************************************************************)
(* statistics_repair.py                                                    *)
(*                                                                         *)
(* A statistic id is kept as what the code asks of its text: the domain    *)
(* before the dot, the first value key of _SENSOR_SUFFIXES that its text    *)
(* contains ("" for none) and the entry id that its text contains (0 for    *)
(* none).  Each function runs from call to return as one step: it has      *)
(* awaits, and what it reads between them (the flags, the entry) is        *)
(* written by nobody else in this specification.                           *)
(***************************************************************************)
PROBE_MONTHS == 60
PROBE_STEP == 6
PROBE_DAYS_PER_MONTH == 30
PACING_DELAY == 5

StatId(domain, suffix, tag) == [domain |-> domain, suffix |-> suffix, tag |-> tag]

\* f"{config_entry.entry_id}_migrated", f"{config_entry.entry_id}_history"
FlagKey(e, what) == <<e, what>>

\* flags.get(flag_key)
FlagSet(fl, key) == Has(fl, key) /\ fl[key]

\* the state the two functions read and write
RepairState == [flags |-> flags, recorder |-> recorder, requests |-> requests]

\* the call that ran last and how far it came
Called(st, fn, e, reached) ==
    [st EXCEPT !.recorder.calls = @ + 1,
               !.recorder.last = [fn |-> fn, entry |-> e, reached |-> reached]]

\* kaco_stats[suffix] (lines 78-90)
KacoStats(ids, suffix) == { sid \in ids : sid.domain = "sensor" /\ sid.suffix = suffix }

\* the orphans of lines 92-141: the ids of a suffix with more than one id
\* and a current id, that are not of this entry
Orphans(ids, e) ==
    { sid \in ids :
        /\ sid.domain = "sensor" /\ sid.suffix # ""
        /\ sid.tag # e
        /\ Cardinality(KacoStats(ids, sid.suffix)) > 1
        /\ \E cur \in KacoStats(ids, sid.suffix) : cur.tag = e }

\* async_migrate_statistics (lines 59-157).  list_ok: list_statistic_ids
\* returned; clear_ok: the ids whose clear_statistics does not raise.
MigrateStatistics(st, e, list_ok, clear_ok) ==
    LET key == FlagKey(e, "migrated")
        cleared == Orphans(st.recorder.ids, e) \cap clear_ok
    IN  IF FlagSet(st.flags, key) THEN Called(st, "migrate", e, "flag")
        ELSE IF ~list_ok THEN Called(st, "migrate", e, "list_failed")
        ELSE Called([st EXCEPT
                        !.flags = Put(@, key, TRUE),
                        !.recorder.ids = @ \ cleared,
                        !.recorder.notifications =
                            IF cleared # {} THEN @ \cup {"kaco_statistics_migration"}
                            ELSE @],
                    "migrate", e, "listed")

\* one run of GETs of one kind in the log of requests: n GETs sent by the
\* call of number call, each followed by a sleep of pause seconds
Gets(kind, n, pause, call) == [kind |-> kind, n |-> n, pause |-> pause, call |-> call]

\* the number of probes of the loop of line 197
Probes == PROBE_MONTHS \div PROBE_STEP

\* (today - earliest_available).days + 1 for the probe of index p
ScanDays(p) == p * PROBE_STEP * PROBE_DAYS_PER_MONTH + 1

\* if not ip (line 170): None or ""
NoAddress(ip) == ip.none \/ ip.s = <<>>

\* ImportHistorical that books the import as done when there is no address
ImportHistoricalMarksDone(st, config, e, reach, p, good, import_ok) ==
    LET key == FlagKey(e, "history")
        ip == ConfigIp(config)
    IN  IF FlagSet(st.flags, key) THEN Called(st, "import", e, "flag")
        ELSE Called([st EXCEPT !.flags = Put(@, key, TRUE)], "import", e, "done")

\* async_import_historical (lines 160-306).  reach: the answer to the
\* reachability GET; p: index of the last probe that found a file, -1 for
\* none; good: the days of the scan that gave an energy value; import_ok:
\* async_import_statistics does not raise.
ImportHistorical(st, config, e, reach, p, good, import_ok) ==
    LET key == FlagKey(e, "history")
        ip == ConfigIp(config)
        call == st.recorder.calls + 1
        r1 == Append(st.requests, Gets("realtime", 1, 0, call))
        r2 == Append(r1, Gets("probe", Probes, PACING_DELAY, call))
        r3 == Append(r2, Gets("day", ScanDays(p), PACING_DELAY, call))
        days == IF good THEN ScanDays(p) ELSE 0
    IN  IF FlagSet(st.flags, key) THEN Called(st, "import", e, "flag")
        ELSE IF NoAddress(ip) THEN Called(st, "import", e, "no_address")
        ELSE IF reach # "ok"
             THEN Called([st EXCEPT !.requests = r1], "import", e, "unreachable")
        ELSE IF p < 0
             THEN Called([st EXCEPT !.requests = r2, !.flags = Put(@, key, TRUE)],
                         "import", e, "no_files")
        ELSE Called([st EXCEPT
                        !.requests = r3,
                        !.flags = Put(@, key, TRUE),
                        !.recorder.ids =
                            IF days > 0 /\ import_ok
                            THEN @ \cup {StatId("sensor", "energyToday", 0)} ELSE @,
                        !.recorder.imported =
                            IF days > 0 /\ import_ok THEN @ + days ELSE @,
                        !.recorder.notifications =
                            IF days > 0 THEN @ \cup {"kaco_historical_import"} ELSE @],
                    "import", e, "done")

\* the state after a function of statistics_repair.py returned
Returned(st) ==
    /\ flags' = st.flags
    /\ recorder' = st.recorder
    /\ requests' = st.requests
    /\ UNCHANGED <<entries, registry, poll, clock, bo, sensors, flow>>

\* answers to the reachability GET: status 200, another status, an exception
ReachAnswers == {"ok", "status", "error"}

\* the last probe that found a file: none, today's, the one 54 months back
ProbeOutcomes == {-1, 0, Probes - 1}

\* await async_migrate_statistics(hass, entry) (__init__.py line 121)
CallMigrateStatistics(e) ==
    /\ e \in DOMAIN entries
    /\ recorder.calls < MaxRepairCalls
    /\ \E list_ok \in BOOLEAN : \E clear_ok \in SUBSET recorder.ids :
          Returned(MigrateStatistics(RepairState, e, list_ok, clear_ok))

\* await async_import_historical(hass, entry)
CallImportHistorical(e) ==
    /\ e \in DOMAIN entries
    /\ recorder.calls < MaxRepairCalls
    /\ \E reach \in ReachAnswers : \E p \in ProbeOutcomes :
       \E good \in BOOLEAN : \E import_ok \in BOOLEAN :
          Returned(ImportHistorical(RepairState, entries[e].data, e,
                                    reach, p, good, import_ok))

\* async_repair_statistics_service (lines 309-318) with the one entry e
RepairStatisticsService(e) ==
    /\ DOMAIN entries = {e}
    /\ recorder.calls + 1 < MaxRepairCalls
    /\ \E list_ok \in BOOLEAN : \E clear_ok \in SUBSET recorder.ids :
       \E reach \in ReachAnswers : \E p \in ProbeOutcomes :
       \E good \in BOOLEAN : \E import_ok \in BOOLEAN :
          LET popped == [RepairState EXCEPT !.flags = EmptyDict]
              migrated == MigrateStatistics(popped, e, list_ok, clear_ok)
          IN  Returned(ImportHistorical(migrated, entries[e].data, e,
                                        reach, p, good, import_ok))

\* the entry of SpecRepair: the inverter of the tests, url "" as in
\* test_import_historical_no_ip, a blank, no url at all
RepairConfigs ==
    { Cfg(Host, 20, 120), Cfg(<<>>, 20, 120), Cfg(<<" ">>, 20, 120),
      [interval |-> 20, kwh_interval |-> 120] }

\* what the recorder lists at the start: nothing; the entry's own statistic;
\* that and an orphan of the same sensor; two statistics of one sensor and
\* none of this entry; an orphan next to ids that are no sensor of this kind
RepairStatSets ==
    { {},
      { StatId("sensor", "currentPower", 1) },
      { StatId("sensor", "currentPower", 1), StatId("sensor", "currentPower", 0) },
      { StatId("sensor", "energyToday", 0), StatId("sensor", "energyToday", 2) },
      { StatId("sensor", "energyToday", 1), StatId("sensor", "energyToday", 2),
        StatId("switch", "energyToday", 0), StatId("sensor", "", 0) } }

InitRepair ==
    /\ entries \in { (1 :> [data |-> c, coordinator |-> 0, unloaded |-> FALSE,
                             found |-> 0]) : c \in RepairConfigs }
    /\ registry = EmptyDict
    /\ poll = EmptyDict
    /\ clock = 0
    /\ bo = NoBackoffCall
    /\ flags = EmptyDict
    /\ recorder \in { [ids |-> s, imported |-> 0, notifications |-> {}, calls |-> 0,
                       last |-> [fn |-> "none", entry |-> 0, reached |-> "none"]] :
                        s \in RepairStatSets }
    /\ requests = <<>>
    /\ sensors = EmptyDict
    /\ flow = EmptyDict

NextRepair ==
    \/ \E e \in DOMAIN entries : CallMigrateStatistics(e)
    \/ \E e \in DOMAIN entries : CallImportHistorical(e)
    \/ \E e \in DOMAIN entries : RepairStatisticsService(e)

SpecRepair == InitRepair /\ [][NextRepair]_vars

(***************************************************************************)
(* config_flow.py: the user step                                           *)
(***************************************************************************)
DEFAULT_GENERATOR_VOLTAGE == FALSE
DEFAULT_GENERATOR_CURRENT == FALSE
DEFAULT_GRID_VOLTAGE == FALSE
DEFAULT_GRID_CURRENT == FALSE

\* d.get(k, default)
Get(d, k, default) == IF Has(d, k) THEN d[k] ELSE default

\* user_input[k] copied when present (const.py lines 376-379)
Preserve(out, d, k) == IF Has(d, k) THEN Put(out, k, d[k]) ELSE out

\* ensure_config (const.py lines 344-380); user_input is no None here
EnsureConfig(user_input) ==
    LET out == [ name |-> Get(user_input, "name", ""),
                 url |-> Get(user_input, "url", <<>>),
                 interval |-> Get(user_input, "interval", DEFAULT_INTERVAL),
                 kwh_interval |-> Get(user_input, "kwh_interval", DEFAULT_KWH_INTERVAL),
                 generator_voltage |->
                     Get(user_input, "generator_voltage", DEFAULT_GENERATOR_VOLTAGE),
                 generator_current |->
                     Get(user_input, "generator_current", DEFAULT_GENERATOR_CURRENT),
                 grid_voltage |-> Get(user_input, "grid_voltage", DEFAULT_GRID_VOLTAGE),
                 grid_current |-> Get(user_input, "grid_current", DEFAULT_GRID_CURRENT) ]
    IN  Preserve(Preserve(out, user_input, "serial_number"), user_input, "mac_address")

\* KacoFlowHandler.__init__ (lines 29-32); last is the result of the last
\* step, none before the first
NewFlowHandler ==
    [ defaults |-> [none |-> TRUE, d |-> EmptyDict], steps |-> 0,
      last |-> [type |-> "none", reason |-> "", submitted |-> FALSE,
                input |-> EmptyDict] ]

\* hass.config_entries.flow.async_init: a new handler
StartFlow ==
    /\ flow # NewFlowHandler
    /\ flow' = NewFlowHandler
    /\ UNCHANGED <<entries, registry, poll, clock, bo, flags, recorder, requests, sensors>>

\* async_create_entry: the host adds an entry with the data
CreateEntry(data) ==
    LET id == Cardinality(DOMAIN entries) + 1 IN
    Put(entries, id, [data |-> data, coordinator |-> 0, unloaded |-> FALSE, found |-> 0])

\* async_step_user (lines 35-68).  user_input.none: the call without input;
\* check_data returns {} or raises, and both leave _errors empty.
StepUser(user_input, check_raises) ==
    /\ flow.last.type \in {"none", "form"}
    /\ flow.steps < MaxSteps
    /\ Cardinality(DOMAIN entries) < MaxEntries
    /\ LET errors == EmptyDict
           defaults == IF flow.defaults.none
                       THEN [none |-> FALSE,
                             d |-> EnsureConfig(IF user_input.none THEN EmptyDict
                                                ELSE user_input.d)]
                       ELSE flow.defaults
       IN  IF ~user_input.none /\ errors = EmptyDict
           THEN /\ entries' = CreateEntry(EnsureConfig(user_input.d))
                /\ flow' = [flow EXCEPT !.defaults = defaults, !.steps = @ + 1,
                                        !.last = [type |-> "create_entry", reason |-> "",
                                                  submitted |-> TRUE,
                                                  input |-> user_input.d]]
           ELSE /\ entries' = entries
                /\ flow' = [flow EXCEPT !.defaults = defaults, !.steps = @ + 1,
                                        !.last = [type |-> "form", reason |-> "",
                                                  submitted |-> ~user_input.none,
                                                  input |-> EmptyDict]]
    /\ UNCHANGED <<registry, poll, clock, bo, flags, recorder, requests, sensors>>

\* MOCK_CONFIG of the tests
MockConfig(url) ==
    [ name |-> "PV Inverter", url |-> url, interval |-> 20, kwh_interval |-> 120,
      generator_voltage |-> TRUE, generator_current |-> TRUE,
      grid_voltage |-> TRUE, grid_current |-> TRUE ]

\* what the user submits: the inverter of the tests, a second inverter, the
\* first address under another name, no address
FlowInputs ==
    { MockConfig(Host), MockConfig(Host2),
      [name |-> "second", url |-> Host, interval |-> 60],
      [name |-> "nowhere"] }

InitFlow ==
    /\ entries \in { EmptyDict }
            \cup { (1 :> [data |-> MockConfig(Host), coordinator |-> 0,
                          unloaded |-> FALSE, found |-> 0]) }
    /\ registry = EmptyDict
    /\ poll = EmptyDict
    /\ clock = 0
    /\ bo = NoBackoffCall
    /\ flags = EmptyDict
    /\ recorder = EmptyDict
    /\ requests = <<>>
    /\ sensors = EmptyDict
    /\ flow = NewFlowHandler

NextFlow ==
    \/ StartFlow
    \/ \E check_raises \in BOOLEAN :
          \/ StepUser([none |-> TRUE, d |-> EmptyDict], check_raises)
          \/ \E d \in FlowInputs : StepUser([none |-> FALSE, d |-> d], check_raises)

SpecFlow == InitFlow /\ [][NextFlow]_vars

(***************************************************************************)
(* sensor.py: KacoSensor                                                   *)
(*                                                                         *)
(* A Python value that can be None is a record [none, v].  A unique_id is   *)
(* a sequence of pieces of text: the literal pieces and the characters of   *)
(* the address.                                                            *)
(***************************************************************************)
DOMAIN_NAME == "kaco"

None(filler) == [none |-> TRUE, v |-> filler]
Some(v) == [none |-> FALSE, v |-> v]

\* the index of the last "." of s, 0 when it has none
RECURSIVE LastDot(_)
LastDot(s) ==
    IF s = <<>> THEN 0
    ELSE IF s[Len(s)] = "." THEN Len(s)
    ELSE LastDot(SubSeq(s, 1, Len(s) - 1))

\* s.split(".")[-1]
LastSegment(s) == SubSeq(s, LastDot(s) + 1, Len(s))

\* bool(coordinator.data): neither None nor an empty dict
Truthy(data) == ~data.none /\ data.v # EmptyDict

\* extra.serialno of the data, when the data has one
SerialOf(data) ==
    IF Truthy(data) /\ Has(data.v, "extra") /\ Has(data.v["extra"], "serialno")
    THEN Some(data.v["extra"]["serialno"])
    ELSE None("")

\* KacoSensorInit with the serial number of the device in the unique_id
\* whenever the coordinator has one
KacoSensorInitSerial(config, coordinator, value_key, entry_id) ==
    LET url == Get(config, "url", <<>>)
        serial == SerialOf(coordinator.data)
    IN  [ value_key |-> value_key,
          url |-> url,
          entry_id |-> entry_id,
          last_known_state |-> None(0),
          unique_id |-> IF ~serial.none THEN <<serial.v, "_", value_key>>
                        ELSE <<DOMAIN_NAME, "_", value_key>>,
          coordinator |-> coordinator,
          seen |-> None(0),
          last_read |-> [prop |-> "none", value |-> None(0), flag |-> FALSE,
                         during |-> coordinator.data] ]

\* KacoSensor.__init__ (lines 93-125).  entry_id is [none, v]; seen and
\* last_read are no attributes of the entity: they keep the last value that
\* native_value returned that was no None, and the last property read with
\* the data the coordinator had then.
KacoSensorInit(config, coordinator, value_key, entry_id) ==
    LET url == Get(config, "url", <<>>)
        segment == LastSegment(url)
        fallback == Strip(IF segment # <<>> THEN segment ELSE url)
    IN  [ value_key |-> value_key,
          url |-> url,
          entry_id |-> entry_id,
          last_known_state |-> None(0),
          unique_id |-> IF ~entry_id.none /\ entry_id.v # ""
                        THEN <<entry_id.v, "_", value_key>>
                        ELSE <<DOMAIN_NAME, "_">> \o fallback \o <<"_", value_key>>,
          coordinator |-> coordinator,
          seen |-> None(0),
          last_read |-> [prop |-> "none", value |-> None(0), flag |-> FALSE,
                         during |-> coordinator.data] ]

\* NativeValue that returns what it finds and stores nothing
NativeValueNoStore(sensor) ==
    LET data == sensor.coordinator.data IN
    IF Truthy(data) /\ Has(data.v, sensor.value_key)
    THEN [sensor |-> sensor, value |-> Some(data.v[sensor.value_key])]
    ELSE [sensor |-> sensor, value |-> sensor.last_known_state]

\* native_value (lines 201-212): the value returned and the sensor after
\* the read.  No value of a snapshot is None, so "value is not None" is
\* "the key is there".
NativeValue(sensor) ==
    LET data == sensor.coordinator.data IN
    IF Truthy(data) /\ Has(data.v, sensor.value_key)
    THEN [sensor |-> [sensor EXCEPT !.last_known_state = Some(data.v[sensor.value_key])],
          value |-> Some(data.v[sensor.value_key])]
    ELSE [sensor |-> sensor, value |-> sensor.last_known_state]

\* available (lines 214-219); super().available is
\* coordinator.last_update_success
Available(sensor) ==
    IF ~sensor.last_known_state.none THEN TRUE
    ELSE sensor.coordinator.last_update_success

\* the state reads native_value of sensor s
ReadNativeValue(s) ==
    /\ s \in DOMAIN sensors
    /\ LET r == NativeValue(sensors[s]) IN
       sensors' = [sensors EXCEPT ![s] =
                      [r.sensor EXCEPT
                          !.seen = IF r.value.none THEN @ ELSE r.value,
                          !.last_read = [prop |-> "native_value", value |-> r.value,
                                         flag |-> FALSE,
                                         during |-> sensors[s].coordinator.data]]]
    /\ UNCHANGED <<entries, registry, poll, clock, bo, flags, recorder, requests, flow>>

\* the state machine reads available of sensor s
ReadAvailable(s) ==
    /\ s \in DOMAIN sensors
    /\ sensors' = [sensors EXCEPT ![s].last_read =
                      [prop |-> "available", value |-> None(0),
                       flag |-> Available(sensors[s]),
                       during |-> sensors[s].coordinator.data]]
    /\ UNCHANGED <<entries, registry, poll, clock, bo, flags, recorder, requests, flow>>

\* a refresh of the coordinator of sensor s ended: new data, or the old data
\* kept and last_update_success cleared
CoordinatorUpdate(s, data, success) ==
    /\ s \in DOMAIN sensors
    /\ sensors' = [sensors EXCEPT ![s].coordinator =
                      [data |-> data, last_update_success |-> success]]
    /\ UNCHANGED <<entries, registry, poll, clock, bo, flags, recorder, requests, flow>>

\* a snapshot of the poll engine with the serial number of the daily file
Snapshot(serial) == PutExtra(BootstrapDefaults(EmptyDict), "serialno", serial)

\* what a coordinator can hold: None (no refresh yet), {} , the bootstrap
\* defaults, and snapshots with the power (0 W, 5000 W) and the energy
SensorData ==
    { None(EmptyDict), Some(EmptyDict), Some(BootstrapDefaults(EmptyDict)),
      Some(Put(Snapshot("BPI123456"), "currentPower", 0)),
      Some(Put(Put(Snapshot("BPI123456"), "currentPower", 5000), "energyToday", 5567)) }

\* configurations of the sensors: MOCK_CONFIG, an address with blanks and a
\* dot at its end, no address
SensorConfigs ==
    { MockConfig(Host), MockConfig(<<"h", "o", "s", "t", " ", ".">>),
      [name |-> "PV Inverter"] }

\* entry_id: None (YAML), "" and the id of the tests
SensorEntryIds == { None(""), Some(""), Some("test_entry_123") }

SensorKeys == {"currentPower", "energyToday"}

InitSensor ==
    /\ entries = EmptyDict
    /\ registry = EmptyDict
    /\ poll = EmptyDict
    /\ clock = 0
    /\ bo = NoBackoffCall
    /\ flags = EmptyDict
    /\ recorder = EmptyDict
    /\ requests = <<>>
    /\ sensors \in { (1 :> KacoSensorInit(c, [data |-> d, last_update_success |-> TRUE],
                                         k, id)) :
                        c \in SensorConfigs, d \in SensorData,
                        k \in SensorKeys, id \in SensorEntryIds }
    /\ flow = EmptyDict

NextSensor ==
    \/ \E s \in DOMAIN sensors : ReadNativeValue(s)
    \/ \E s \in DOMAIN sensors : ReadAvailable(s)
    \/ \E s \in DOMAIN sensors : \E d \in SensorData : \E ok \in BOOLEAN :
          CoordinatorUpdate(s, d, ok)

SpecSensor == InitSensor /\ [][NextSensor]_vars

(***************************************************************************)
(* __init__.py: async_setup_entry, update_listener; config_flow.py: the     *)
(* options form.  SpecListener: one entry with its options, set up, polled, *)
(* changed through the options form and reloaded by its update listener.    *)
(*                                                                         *)
(* The entry of this specification has, beside the fields of every entry:  *)
(* options; listener (the update listener is registered); calls (listener   *)
(* tasks scheduled and not yet run); lpc (where the running listener task   *)
(* stands: "none", or "reload_unload" in async_reload before the unload);   *)
(* and three counts of what happened: reloads (listener runs that reloaded),*)
(* noops (listener runs that did nothing), submits (options forms sent).    *)
(***************************************************************************)
ManagedEntry(data, options) ==
    [ data |-> data, coordinator |-> 0, unloaded |-> FALSE, found |-> 0,
      options |-> options, listener |-> FALSE, calls |-> 0, lpc |-> "none",
      reloads |-> 0, noops |-> 0, submits |-> 0 ]

\* dict.update: d with the items of u
Overlay(d, u) ==
    [key \in DOMAIN d \cup DOMAIN u |-> IF key \in DOMAIN u THEN u[key] ELSE d[key]]

\* update_listener with the reload not depending on data and options
UpdateListenerAlwaysReloads(e) ==
    /\ e \in DOMAIN entries
    /\ Has(entries[e], "options")
    /\ entries[e].calls > 0
    /\ entries[e].lpc = "none"
    /\ LET ran == [entries[e] EXCEPT !.calls = @ - 1] IN
        entries' = [entries EXCEPT ![e] =
                        [UpdateEntry(ran, ran.options, ran.options)
                            EXCEPT !.lpc = "reload_unload", !.reloads = @ + 1]]
    /\ UNCHANGED <<registry, poll, clock, bo, outside>>

\* async_setup_entry, lines 105-112: the data is completed, then the update
\* listener is registered.  The platform is set up after that
\* (GetCoordinator).  A reload that waited for this setup is over.
SetupEntry(e) ==
    /\ e \in DOMAIN entries
    /\ Has(entries[e], "options")
    /\ ~entries[e].listener
    /\ entries[e].coordinator = 0
    /\ LET new_data == EnsureConfig(entries[e].data)
           updated == IF ~SameDict(entries[e].data, new_data)
                      THEN UpdateEntry(entries[e], new_data, new_data)
                      ELSE entries[e]
       IN  entries' = [entries EXCEPT ![e] =
                          [updated EXCEPT !.listener = TRUE, !.lpc = "none"]]
    /\ UNCHANGED <<registry, poll, clock, bo, outside>>

\* OptionsFlowHandler (config_flow.py lines 84-116): the form is sent with
\* user_input, and the host stores the result as the options of the entry
OptionsSubmit(e, user_input) ==
    /\ e \in DOMAIN entries
    /\ Has(entries[e], "options")
    /\ entries[e].listener
    /\ entries[e].submits < MaxSubmits
    /\ LET data == Overlay(entries[e].data, EnsureConfig(user_input)) IN
        entries' = [entries EXCEPT ![e] =
                        [UpdateEntry(@, entries[e].data, data) EXCEPT !.submits = @ + 1]]
    /\ UNCHANGED <<registry, poll, clock, bo, outside>>

\* update_listener (lines 143-147), one scheduled task of it, up to its
\* await of async_reload
UpdateListener(e) ==
    /\ e \in DOMAIN entries
    /\ Has(entries[e], "options")
    /\ entries[e].calls > 0
    /\ entries[e].lpc = "none"
    /\ LET ran == [entries[e] EXCEPT !.calls = @ - 1] IN
        entries' = [entries EXCEPT ![e] =
                        IF ~SameDict(ran.data, ran.options)
                        THEN [UpdateEntry(ran, ran.options, ran.options)
                                 EXCEPT !.lpc = "reload_unload", !.reloads = @ + 1]
                        ELSE [ran EXCEPT !.noops = @ + 1]]
    /\ UNCHANGED <<registry, poll, clock, bo, outside>>

\* async_reload of the host: the entry is unloaded (the platform unloads),
\* and then set up again (SetupEntry)
ReloadUnload(e) ==
    /\ e \in DOMAIN entries
    /\ Has(entries[e], "options")
    /\ entries[e].lpc = "reload_unload"
    /\ Unload(e, TRUE)

\* what the user sends with the options form: another interval, and a form
\* with the name and the address alone
OptionInputs ==
    { [MockConfig(Host) EXCEPT !.interval = 60],
      [name |-> "PV Inverter", url |-> Host] }

\* an entry made by the user step (no options yet), the same entry after an
\* options form, and an entry whose data lacks keys
InitListener ==
    /\ \/ entries = (1 :> ManagedEntry(MockConfig(Host), EmptyDict))
       \/ entries = (1 :> ManagedEntry(MockConfig(Host), MockConfig(Host)))
       \/ entries = (1 :> ManagedEntry(Cfg(Host, 20, 1), EmptyDict))
    /\ registry = EmptyDict
    /\ poll = EmptyDict
    /\ clock = 0
    /\ OutsideIdle
    /\ bo = NoBackoffCall

\* the inverter answers every realtime GET of this specification
ListenerRtAnswers == { RtAnswer("ok", 200, SampleRecord) }

NextListener ==
    \/ \E e \in DOMAIN entries : SetupEntry(e)
    \/ \E e \in DOMAIN entries : entries[e].listener /\ GetCoordinator(e)
    \/ \E e \in DOMAIN entries : \E user_input \in OptionInputs : OptionsSubmit(e, user_input)
    \/ \E e \in DOMAIN entries : UpdateListener(e)
    \/ \E e \in DOMAIN entries : ReloadUnload(e)
    \/ \E k \in DOMAIN poll : Listened(k) /\ Poll(k, MaxLifeFail)
    \/ \E k \in DOMAIN poll : \E a \in ListenerRtAnswers : \E j \in LifeJitterDraws : RtReply(k, a, j)
    \/ \E k \in DOMAIN poll : \E a \in LifeDayAnswers : DayReply(k, a)

SpecListener == InitListener /\ [][NextListener]_vars

(***************************************************************************)
(* Properties                                                              *)
(***************************************************************************)
InBounds(ms) == Seconds(MIN_INTERVAL) <= ms /\ ms <= Seconds(MAX_INTERVAL)

Defaults == [extra |-> [max_power |-> 0, serialno |-> "no_serial", model |-> "no_model"]]

\* C1 (SpecOutage): async_get_datas never raises to its caller: no cycle ends
\* with an exception leaving the function, and the mapping it returns has
\* the "extra" record.
C1_NeverRaises ==
    \A k \in DOMAIN poll :
        /\ poll[k].outcome # "raised"
        /\ Has(poll[k].values, "extra")

\* C2 (Spec): in every reachable state the stored work interval of every
\* node lies within [MIN_INTERVAL, MAX_INTERVAL], for every configured base
\* interval.
C2_IntervalInBounds ==
    \A k \in DOMAIN poll : InBounds(poll[k].work_interval)

\* C3 (SpecBackoff): for every fail_count >= 1, every current interval and
\* every jitter draw, _apply_backoff returns a value in [5, 120].
C3_BackoffInRange ==
    bo.called => (~bo.result.raised /\ InBounds(bo.result.value))

\* C4 (Spec): every cycle that ends in failure (realtime attempts exhausted,
\* or an exception during the cycle) leaves fail_count exactly one greater
\* than it was before the cycle.
C4_FailureIncrementsByOne ==
    \A k \in DOMAIN poll :
        (poll[k].pc = "idle" /\ poll[k].outcome \in {"exhausted", "exception", "raised"})
            => poll[k].fail_count = poll[k].pre.fail_count + 1

\* C5 (Spec): after every cycle that got a 14-field record and decoded it
\* without error, fail_count is 0 and work_interval is the base interval,
\* whatever they were before.
C5_SuccessResets ==
    \A k \in DOMAIN poll :
        (poll[k].rt_record /\ poll[k].outcome = "success")
            => (poll[k].fail_count = 0 /\ poll[k].work_interval = poll[k].base_interval)

C5_Witness ==
    \E k \in DOMAIN poll :
        /\ poll[k].rt_record /\ poll[k].outcome = "success"
        /\ poll[k].pre.fail_count >= 2
        /\ poll[k].pre.work_interval # poll[k].base_interval
        /\ poll[k].fail_count = 0

\* the third failure in a row by exhausted attempts has just been booked
ThirdTimeout(p) ==
    /\ p.pc = "idle"
    /\ p.outcome = "exhausted"
    /\ p.rt_bad = 1 + RETRY_PER_POLL
    /\ p.pre.fail_count = 2

AddressMissing(ip) == ip.none \/ \A i \in 1..Len(ip.s) : ip.s[i] \in Whitespace

\* C7 (Spec): with a missing, empty or whitespace-only address a cycle sends
\* no HTTP request, leaves fail_count and work_interval unchanged and
\* returns the snapshot unchanged, which is the default snapshot.
C7_BlankAddressInert ==
    \A k \in DOMAIN poll :
        AddressMissing(poll[k].ip)
            => /\ poll[k].pc = "idle"
               /\ poll[k].requests = <<>>
               /\ poll[k].fail_count = poll[k].pre.fail_count
               /\ poll[k].work_interval = poll[k].pre.work_interval
               /\ poll[k].values = poll[k].pre.values
               /\ poll[k].values = Defaults

C7_Witness ==
    \E k \in DOMAIN poll :
        /\ ~poll[k].ip.none /\ poll[k].ip.s # <<>>
        /\ AddressMissing(poll[k].ip)
        /\ poll[k].outcome = "guard"
        /\ poll[k].requests = <<>>

\* the measurements of a snapshot that C8 names
ElectricalKeys == { ElectricalWrites[i][1] : i \in 1..Len(ElectricalWrites) }
                      \cup {"currentPower", "energyToday"}
AuxKeys == {"max_power", "serialno", "model", "status", "status_code", "temp",
            "last_updated"}

SameAt(d1, d2, keys) ==
    \A key \in keys :
        /\ Has(d1, key) <=> Has(d2, key)
        /\ Has(d1, key) => d1[key] = d2[key]

SameMeasurements(v, w) ==
    /\ SameAt(v, w, ElectricalKeys)
    /\ SameAt(v["extra"], w["extra"], AuxKeys)

\* every realtime attempt of the last cycle ended without a 14-field record
NoRecordCycle(p) ==
    p.pc = "idle" /\ ~p.rt_record /\ p.rt_bad = 1 + RETRY_PER_POLL

\* C8 (Spec): a cycle in which no realtime attempt gives 14 fields is a
\* failure: fail_count grows, and the electrical values, energy-today, max
\* power, serial, model, status, temperature and last-updated time stamp of
\* the snapshot stay as they were before the cycle.
C8_NoRecordKeepsSnapshot ==
    \A k \in DOMAIN poll :
        NoRecordCycle(poll[k])
            => /\ poll[k].fail_count > poll[k].pre.fail_count
               /\ SameMeasurements(poll[k].values, poll[k].pre.values)

C8_Witness ==
    \E k \in DOMAIN poll :
        /\ NoRecordCycle(poll[k])
        /\ Has(poll[k].values, "currentPower")
        /\ Has(poll[k].values, "energyToday")
        /\ poll[k].values["extra"]["last_updated"] < clock
        /\ poll[k].fail_count = poll[k].pre.fail_count + 1

\* a snapshot without the time stamp that gates the daily file
WithoutRefreshStamp(v) ==
    [v EXCEPT !["extra"] =
        [key \in DOMAIN v["extra"] \ {"last_kWh_Update"} |-> v["extra"][key]]]

\* the last cycle did not complete: an exception or a cancellation ended it
Aborted(p) == p.outcome \in {"exception", "cancelled", "raised"}

\* C9 (Spec): the snapshot update of a cycle is atomic.  After a cycle that
\* ended with an exception or was cancelled, and while a cycle waits for the
\* realtime answer, a reader sees the snapshot of before the cycle; and the
\* snapshot a reader sees at any await of a cycle that then completes is the
\* one of before the cycle or the one the cycle returns (the refresh time
\* stamp of the daily file is not counted).
C9_AtomicSnapshot ==
    /\ [](\A k \in DOMAIN poll :
            (Aborted(poll[k]) \/ poll[k].pc = "rt_wait")
                => WithoutRefreshStamp(poll[k].values)
                       = WithoutRefreshStamp(poll[k].pre.values))
    /\ [][\A k \in DOMAIN poll :
            (poll[k].pc # "idle" /\ poll'[k].pc = "idle" /\ ~Aborted(poll'[k]))
                => \/ WithoutRefreshStamp(poll[k].values)
                          = WithoutRefreshStamp(poll[k].pre.values)
                   \/ WithoutRefreshStamp(poll[k].values)
                          = WithoutRefreshStamp(poll'[k].values)]_vars

\* C10 (Spec): from the creation of the node on and after every cycle the
\* snapshot is not empty and its "extra" record has max_power, serialno and
\* model.
C10_DefaultsPresent ==
    \A k \in DOMAIN poll :
        /\ poll[k].values # EmptyDict
        /\ Has(poll[k].values, "extra")
        /\ {"max_power", "serialno", "model"} \subseteq DOMAIN poll[k].values["extra"]

C10_Witness ==
    \E k \in DOMAIN poll :
        /\ poll[k].outcome = "exception"
        /\ Has(poll[k].values, "generatorVoltage1")
        /\ {"max_power", "serialno", "model"} \subseteq DOMAIN poll[k].values["extra"]

\* C11 (Spec): over the life of a poll state the running max_power of the
\* snapshot never decreases, whatever the cycles do, and after a successful
\* cycle it is at least the power reading of that cycle.
C11_MaxPowerMonotone ==
    /\ [](\A k \in DOMAIN poll :
            (poll[k].pc = "idle" /\ poll[k].outcome = "success")
                => /\ poll[k].values["extra"]["max_power"] >= poll[k].values["currentPower"]
                   /\ poll[k].values["extra"]["max_power"] >= poll[k].node["max_power"])
    /\ [][\A k \in DOMAIN poll :
            poll'[k].values["extra"]["max_power"] >= poll[k].values["extra"]["max_power"]]_vars

\* a successful cycle with a reading below the running maximum
C11_Witness ==
    \E k \in DOMAIN poll :
        /\ poll[k].pc = "idle" /\ poll[k].outcome = "success"
        /\ poll[k].values["currentPower"] < poll[k].pre.values["extra"]["max_power"]
        /\ poll[k].values["extra"]["max_power"] = poll[k].pre.values["extra"]["max_power"]
        /\ poll[k].values["extra"]["max_power"] > 0

\* the current or last cycle sent a daily GET
DaySent(p) == \E i \in 1..Len(p.requests) : p.requests[i] = "day"

\* a daily read was stored before the cycle started, and the cycle started
\* before its time stamp plus kwh_interval
RefreshNotDue(p) ==
    /\ Has(p.pre.values, "energyToday")
    /\ Has(p.pre.values["extra"], "last_kWh_Update")
    /\ p.pre.now < p.pre.values["extra"]["last_kWh_Update"] + p.kwh_interval

RealtimeDone(p) ==
    /\ p.rt_record
    /\ p.pc = "day_wait" \/ (p.pc = "idle" /\ p.outcome \in {"success", "cancelled"})

\* C13 (Spec): every cycle with a decoded realtime record that starts at or
\* after last_kWh_Update + kwh_interval sends a daily GET, and so does every
\* such cycle while energyToday was never stored.
C13_RefetchWhenDue ==
    \A k \in DOMAIN poll :
        (RealtimeDone(poll[k]) /\ ~RefreshNotDue(poll[k])) => DaySent(poll[k])

\* a daily GET sent again by a cycle that starts at T + kwh_interval or later
C13_Witness ==
    \E k \in DOMAIN poll :
        /\ RealtimeDone(poll[k])
        /\ Has(poll[k].pre.values, "energyToday")
        /\ ~RefreshNotDue(poll[k])
        /\ DaySent(poll[k])

\* C14 (Spec): two daily GETs of one endpoint are at least kwh_interval
\* apart, whatever the outcome of the earlier one.  Stated for two cycles in
\* a row that both send a daily GET: the earlier one decoded its record, so
\* its "now" is the last_updated the later one starts with.
C14_DailyGetsApart ==
    \A k \in DOMAIN poll :
        (poll[k].pre.day_sent /\ DaySent(poll[k]))
            => poll[k].pre.now - poll[k].pre.values["extra"]["last_updated"]
                   >= poll[k].kwh_interval

\* C15 (Spec): whatever the daily GET of a cycle is answered with (a time
\* out, a connection error, a status other than 200, a body that is too
\* short, has one line or too few columns, an energy field that is no number,
\* or a good file), the cycle ends as a success with fail_count 0 and the
\* work interval and the coordinator's interval at the base interval.
C15_DailyOutcomeIsolated ==
    [][\A k \in DOMAIN poll :
          (poll[k].pc = "day_wait" /\ poll'[k].pc = "idle"
           /\ poll'[k].outcome # "cancelled")
              => /\ poll'[k].outcome = "success"
                 /\ poll'[k].fail_count = 0
                 /\ poll'[k].work_interval = poll[k].base_interval
                 /\ poll'[k].update_interval = poll[k].base_interval]_vars

\* a cycle after two failures whose daily GET gave nothing: it ended as a
\* success, energyToday still missing
C15_Witness ==
    \E k \in DOMAIN poll :
        /\ poll[k].pc = "idle" /\ poll[k].outcome = "success"
        /\ DaySent(poll[k])
        /\ ~Has(poll[k].values, "energyToday")
        /\ poll[k].pre.fail_count >= 2
        /\ poll[k].fail_count = 0
        /\ poll[k].work_interval = poll[k].base_interval

\* C16 (Spec): a realtime answer with an HTTP status outside 200..299 never
\* gives the record of a cycle, whatever its body holds.
C16_Non2xxIsFailure ==
    \A k \in DOMAIN poll :
        poll[k].rt_record => (poll[k].rt_status >= 200 /\ poll[k].rt_status < 300)

DefaultExtra == Defaults["extra"]

\* out is d with nothing changed and only missing defaults added
KeepsAndFills(d, out) ==
    LET x == IF Has(d, "extra") THEN d["extra"] ELSE EmptyDict IN
    /\ DOMAIN out = DOMAIN d \cup {"extra"}
    /\ \A key \in DOMAIN d \ {"extra"} : out[key] = d[key]
    /\ DOMAIN out["extra"] = DOMAIN x \cup DOMAIN DefaultExtra
    /\ \A key \in DOMAIN x : out["extra"][key] = x[key]
    /\ \A key \in DOMAIN DefaultExtra \ DOMAIN x : out["extra"][key] = DefaultExtra[key]

\* C17 (SpecBootstrap): _bootstrap_defaults of no prior state gives
\* max_power 0, serialno "no_serial", model "no_model"; of a prior state it
\* keeps every field with its value and adds only the missing defaults; a
\* second application changes nothing.
C17_BootstrapKeepsAndFills ==
    /\ (bo.calls = 1 /\ bo.none) => bo.result = Defaults
    /\ bo.calls = 1 => KeepsAndFills(bo.existing, bo.result)
    /\ bo.calls = 2 => bo.result = bo.prev

\* applied twice to a prior state with a serial number and no model
C17_Witness ==
    /\ bo.calls = 2
    /\ Has(bo.existing, "extra")
    /\ Has(bo.existing["extra"], "serialno")
    /\ bo.existing["extra"]["serialno"] # "no_serial"
    /\ ~Has(bo.existing["extra"], "model")
    /\ bo.result["extra"]["serialno"] = bo.existing["extra"]["serialno"]
    /\ bo.result["extra"]["model"] = "no_model"

\* the key under which get_coordinator keeps the node of an entry
KeyOf(e) == NodeKey(ConfigIp(entries[e].data))

\* no other entry is configured with the address of e
SoleEndpoint(e) == \A o \in DOMAIN entries \ {e} : KeyOf(o) # KeyOf(e)

\* C18 (SpecLifecycle): when async_unload_entry succeeds for an entry, the
\* registry holds no node for its endpoint afterwards, also for an entry with
\* an empty address; and the next get_coordinator for the endpoint gives a
\* new coordinator on a fresh node: fail_count 0, work interval at the base
\* interval, the default snapshot.
C18_UnloadDropsState ==
    [][\A e \in DOMAIN entries :
          /\ (entries[e].coordinator # 0 /\ entries'[e].coordinator = 0)
                => KeyOf(e) \notin DOMAIN registry'
          /\ (/\ entries[e].unloaded /\ SoleEndpoint(e)
              /\ entries[e].coordinator = 0 /\ entries'[e].coordinator # 0)
                => /\ entries'[e].coordinator \notin DOMAIN poll
                   /\ poll'[entries'[e].coordinator].fail_count = 0
                   /\ poll'[entries'[e].coordinator].work_interval
                          = BaseInterval(entries[e].data)
                   /\ poll'[entries'[e].coordinator].values = Defaults]_vars

\* the entries are configured with two different addresses, at least one of
\* them not empty
TwoEndpoints(e1, e2) ==
    LET ip1 == ConfigIp(entries[e1].data)
        ip2 == ConfigIp(entries[e2].data)
    IN  /\ ip1 # ip2
        /\ ~((ip1.none \/ ip1.s = <<>>) /\ (ip2.none \/ ip2.s = <<>>))

\* C19 (SpecLifecycle): two entries configured with different addresses have
\* different nodes and coordinators, and a step of a cycle of one node
\* changes no other node, no registry entry and no config entry but the one
\* the node was created for.
C19_EndpointsIndependent ==
    /\ [](\A e1 \in DOMAIN entries : \A e2 \in DOMAIN entries \ {e1} :
            (/\ entries[e1].coordinator # 0 /\ entries[e2].coordinator # 0
             /\ TwoEndpoints(e1, e2))
                => entries[e1].coordinator # entries[e2].coordinator)
    /\ [][\A k \in DOMAIN poll :
            (poll'[k] # poll[k] /\ poll'[k].pc # "released")
                => /\ \A j \in DOMAIN poll \ {k} : poll'[j] = poll[j]
                   /\ registry' = registry
                   /\ \A e \in DOMAIN entries \ {poll[k].entry} :
                          entries'[e] = entries[e]]_vars

\* two endpoints in the middle of their cycles, one after a failed attempt,
\* the other with its record decoded
C19_Witness ==
    \E k \in DOMAIN poll : \E j \in DOMAIN poll \ {k} :
        /\ poll[k].pc = "rt_wait" /\ poll[k].attempt = 1
        /\ poll[j].pc = "day_wait"
        /\ poll[j].ip # poll[k].ip
        /\ Has(poll[j].values, "currentPower")
        /\ poll[k].values = Defaults \/ ~Has(poll[k].values, "currentPower")

\* C20 (SpecLifecycle): a get_coordinator call for an address that has a
\* node returns the coordinator of that node and changes neither the registry
\* nor any node (fail_count, work interval, snapshot); entries with one
\* address that were never unloaded hold one and the same coordinator.
C20_CoordinatorReused ==
    /\ [](\A e1 \in DOMAIN entries : \A e2 \in DOMAIN entries \ {e1} :
            (/\ entries[e1].coordinator # 0 /\ entries[e2].coordinator # 0
             /\ ~entries[e1].unloaded /\ ~entries[e2].unloaded
             /\ KeyOf(e1) = KeyOf(e2))
                => entries[e1].coordinator = entries[e2].coordinator)
    /\ [][\A e \in DOMAIN entries :
            (/\ entries[e].coordinator = 0 /\ entries'[e].coordinator # 0
             /\ KeyOf(e) \in DOMAIN registry)
                => /\ entries'[e].coordinator = registry[KeyOf(e)]
                   /\ registry' = registry
                   /\ poll' = poll]_vars

\* the second call for an address came after a failed cycle and found the
\* node as the cycle left it
C20_Witness ==
    \E e1 \in DOMAIN entries : \E e2 \in DOMAIN entries \ {e1} :
        /\ entries[e1].coordinator # 0
        /\ entries[e1].coordinator = entries[e2].coordinator
        /\ entries[e2].found = 1
        /\ poll[entries[e2].coordinator].fail_count = 1
        /\ poll[entries[e2].coordinator].work_interval
               # poll[entries[e2].coordinator].base_interval

\* C26 (Spec): after every failed cycle the work interval is at least the
\* configured base interval, for every jitter draw and every base interval
\* within [MIN_INTERVAL, MAX_INTERVAL].
C26_FailureOnlyDegrades ==
    \A k \in DOMAIN poll :
        (/\ poll[k].pc = "idle"
         /\ poll[k].outcome \in {"exhausted", "exception"}
         /\ InBounds(poll[k].base_interval))
            => poll[k].work_interval >= poll[k].base_interval

\* C27 (SpecBackoff): with the current interval and the jitter draw held
\* fixed, _apply_backoff gives for the fail count f + 1 a value that is at
\* least the one for f, for every f >= 1.
C27_BackoffMonotone ==
    bo.called =>
        LET next == ApplyBackoff(bo.c, bo.f + 1, bo.j) IN
        /\ ~bo.result.raised
        /\ ~next.raised
        /\ bo.result.value <= next.value

\* the number of GETs of one kind among the requests of a cycle
NumGets(p, kind) == Cardinality({ i \in 1..Len(p.requests) : p.requests[i] = kind })

\* C28 (Spec): a cycle sends at most 1 + RETRY_PER_POLL realtime GETs, each
\* one after the first only when every answer before it was no 14-field
\* record, and none after an answer of 14 fields.
C28_RealtimeBudget ==
    \A k \in DOMAIN poll :
        /\ NumGets(poll[k], "rt") <= 1 + RETRY_PER_POLL
        /\ poll[k].pc = "rt_wait" => NumGets(poll[k], "rt") = poll[k].rt_bad + 1
        /\ poll[k].rt_record => NumGets(poll[k], "rt") = poll[k].rt_bad + 1
        /\ (poll[k].pc = "idle" /\ poll[k].outcome \in {"exhausted", "exception"}
            /\ ~poll[k].rt_record)
              => NumGets(poll[k], "rt") = poll[k].rt_bad

\* the second attempt of a cycle gave the record
C28_Witness ==
    \E k \in DOMAIN poll :
        /\ poll[k].rt_record
        /\ poll[k].rt_bad = 1
        /\ NumGets(poll[k], "rt") = 2
        /\ poll[k].pc = "idle" /\ poll[k].outcome = "success"

\* C29 (Spec): a cycle sends at most one daily GET, as its last request,
\* only after an answer of 14 fields of the same cycle was decoded
\* (last_updated is the "now" of the cycle), never while the realtime GET is
\* outstanding, and not at all when its realtime attempts are exhausted.
C29_DailyAfterRealtime ==
    \A k \in DOMAIN poll :
        /\ NumGets(poll[k], "day") <= 1
        /\ poll[k].pc = "rt_wait" => NumGets(poll[k], "day") = 0
        /\ (poll[k].outcome = "exhausted" \/ ~poll[k].rt_record)
              => NumGets(poll[k], "day") = 0
        /\ NumGets(poll[k], "day") = 1
              => /\ poll[k].rt_record
                 /\ poll[k].requests[Len(poll[k].requests)] = "day"
                 /\ Has(poll[k].values, "currentPower")
                 /\ poll[k].values["extra"]["last_updated"] = poll[k].pre.now

\* the daily GET of a cycle whose first realtime attempt failed is out
C29_Witness ==
    \E k \in DOMAIN poll :
        /\ poll[k].pc = "day_wait"
        /\ poll[k].requests = <<"rt", "rt", "day">>

\* C30 (Spec): at the end of every cycle, by the guard, as a success or as a
\* failure, the update_interval of the coordinator is the work interval of
\* the node.
C30_IntervalPublished ==
    \A k \in DOMAIN poll :
        (/\ poll[k].pc = "idle"
         /\ poll[k].outcome \in {"guard", "success", "exhausted", "exception", "raised"})
            => poll[k].update_interval = poll[k].work_interval

\* a success after failures: both intervals are back at the base interval
C30_Witness ==
    \E k \in DOMAIN poll :
        /\ poll[k].pc = "idle" /\ poll[k].outcome = "success"
        /\ poll[k].pre.fail_count >= 2
        /\ poll[k].pre.work_interval > poll[k].base_interval
        /\ poll[k].update_interval = poll[k].base_interval
        /\ poll[k].work_interval = poll[k].base_interval

\* C21 (SpecRepair): after async_migrate_statistics returned having listed
\* the statistic ids, with or without orphans, the data of the config entry
\* holds statistics_migrated = True.
C21_MigrationMarksEntry ==
    (recorder.last.fn = "migrate" /\ recorder.last.reached = "listed") =>
        LET data == entries[recorder.last.entry].data IN
        Has(data, "statistics_migrated") /\ data["statistics_migrated"] = TRUE

\* C22 (SpecFlow): a user step submitted with an address that a config entry
\* already has ends in ABORT with the reason already_configured and adds no
\* entry.
C22_DuplicateAborts ==
    [][(/\ flow'.steps > flow.steps
        /\ flow'.last.submitted
        /\ Has(flow'.last.input, "url")
        /\ \E e \in DOMAIN entries :
              /\ Has(entries[e].data, "url")
              /\ entries[e].data["url"] = flow'.last.input["url"])
          => /\ flow'.last.type = "abort"
             /\ flow'.last.reason = "already_configured"
             /\ entries' = entries]_vars

\* the data the coordinator had at the last read is None or has no value
\* under the key of the sensor
LacksValue(sensor) ==
    sensor.last_read.during.none \/ ~Has(sensor.last_read.during.v, sensor.value_key)

\* C23 (SpecSensor): a read of native_value while the data of the coordinator
\* is None or lacks the key of the sensor returns the last value that
\* native_value returned that was no None, and None when there was none yet;
\* once there was one, available is True.
C23_LastKnownValue ==
    \A s \in DOMAIN sensors :
        /\ (sensors[s].last_read.prop = "native_value" /\ LacksValue(sensors[s]))
              => sensors[s].last_read.value = sensors[s].seen
        /\ (sensors[s].last_read.prop = "available" /\ ~sensors[s].seen.none)
              => sensors[s].last_read.flag = TRUE

\* a read without data returned the 5000 W read before
C23_Witness ==
    \E s \in DOMAIN sensors :
        /\ sensors[s].last_read.prop = "native_value"
        /\ sensors[s].last_read.during.none
        /\ ~sensors[s].coordinator.last_update_success
        /\ sensors[s].last_read.value = Some(5000)

\* the unique_id the claim describes: entry id and value key, or the domain,
\* the last piece of the address and the value key
StableId(sensor) ==
    IF ~sensor.entry_id.none /\ sensor.entry_id.v # ""
    THEN <<sensor.entry_id.v, "_", sensor.value_key>>
    ELSE LET seg == LastSegment(sensor.url) IN
         <<DOMAIN_NAME, "_">> \o Strip(IF seg # <<>> THEN seg ELSE sensor.url)
            \o <<"_", sensor.value_key>>

\* the pieces of a unique_id
Pieces(uid) == { uid[i] : i \in 1..Len(uid) }

\* C24 (SpecSensor): the unique_id of a sensor is the one made at
\* construction from the entry id and the value key, or from the address
\* when there is no entry id; no update of the coordinator's data and no
\* read changes it, and the serial number in the data is no piece of it.
C24_UniqueIdStable ==
    /\ [](\A s \in DOMAIN sensors :
            /\ sensors[s].unique_id = StableId(sensors[s])
            /\ LET serial == SerialOf(sensors[s].coordinator.data) IN
               ~serial.none => serial.v \notin Pieces(sensors[s].unique_id))
    /\ [][\A s \in DOMAIN sensors :
            sensors'[s].unique_id = sensors[s].unique_id]_vars

\* a sensor set up from YAML, read while the data has a serial number
C24_Witness ==
    \E s \in DOMAIN sensors :
        /\ sensors[s].entry_id.none
        /\ sensors[s].unique_id = <<"kaco", "_", "5", "_", "currentPower">>
        /\ sensors[s].last_read.prop = "native_value"
        /\ sensors[s].last_read.value = Some(5000)
        /\ SerialOf(sensors[s].coordinator.data) = Some("BPI123456")

\* the entry has no address or the address ""
AddressEmpty(e) == ~Has(entries[e].data, "url") \/ entries[e].data["url"] = <<>>

\* C25 (SpecRepair): a call of async_import_historical for an entry with an
\* empty address sends no HTTP request and leaves the entry's data and the
\* history flag as they were; the flag of such an entry is never set, so no
\* later call returns at the flag.
C25_NoAddressNoImport ==
    /\ [](\A e \in DOMAIN entries :
            AddressEmpty(e) => ~FlagSet(flags, FlagKey(e, "history")))
    /\ [][\A e \in DOMAIN entries :
            (/\ AddressEmpty(e)
             /\ recorder'.calls > recorder.calls
             /\ recorder'.last.fn = "import"
             /\ recorder'.last.entry = e)
                => /\ requests' = requests
                   /\ entries' = entries
                   /\ FlagSet(flags', FlagKey(e, "history"))
                        = FlagSet(flags, FlagKey(e, "history"))]_vars

\* a second call for an entry with the address "" has run
C25_Witness ==
    /\ recorder.last.fn = "import"
    /\ recorder.calls >= 2
    /\ AddressEmpty(recorder.last.entry)
    /\ Has(entries[recorder.last.entry].data, "url")
    /\ requests = <<>>
    /\ ~FlagSet(flags, FlagKey(recorder.last.entry, "history"))

\* a cycle has ended as a failure
Failed(p) == p.pc = "idle" /\ p.outcome \in {"exhausted", "exception", "raised"}

\* C31 (SpecRecords): a failed cycle that started with WARN_UNTIL_FAILS or
\* more failures booked, so that it is the fourth or a later failure of its
\* streak, is logged at debug severity.
C31_LateFailuresAtDebug ==
    \A k \in DOMAIN poll :
        (Failed(poll[k]) /\ poll[k].pre.fail_count >= WARN_UNTIL_FAILS)
            => poll[k].log = "debug"

\* C32 (SpecRecords): a cycle whose record has an integer status code without
\* an entry in the status table ends as a success with the empty status
\* description.
C32_UnknownStatusIsEmpty ==
    \A k \in DOMAIN poll :
        (/\ poll[k].pc = "idle"
         /\ poll[k].rt_record
         /\ poll[k].rt_code.num /\ poll[k].rt_code.int
         /\ poll[k].rt_code.v \notin DOMAIN t_map)
            => /\ poll[k].outcome = "success"
               /\ poll[k].values["extra"]["status"] = ""
               /\ poll[k].values["extra"]["status_code"] = poll[k].rt_code.v

\* the daily answer the claim lets a cycle use: status 200, a text of more
\* than 10 characters, more than one line, a second line of more than 4
\* fields, field 4 a number
UsableDaily(a) ==
    /\ a.kind = "ok" /\ a.status = 200
    /\ TextLen(a.lines) > 10
    /\ Len(a.lines) > 1
    /\ Len(a.lines[2]) > 4
    /\ a.lines[2][5].num

\* energy-today, serial and model are the same in two snapshots
SameDailyValues(v, w) ==
    /\ SameAt(v, w, {"energyToday"})
    /\ SameAt(v["extra"], w["extra"], {"serialno", "model"})

\* last_kWh_Update is the same in two snapshots
SameRefreshStamp(v, w) == SameAt(v["extra"], w["extra"], {"last_kWh_Update"})

\* no daily answer that is not usable changes one of the four
UnusableDailyKeeps ==
    \A k \in DOMAIN poll :
        poll[k].pc = "day_wait" =>
            \A a \in DayAnswers :
                ~UsableDaily(a) =>
                    /\ SameDailyValues(DayStep(poll[k], a).values, poll[k].values)
                    /\ SameRefreshStamp(DayStep(poll[k], a).values, poll[k].values)

\* C33 as stated (Spec): energy-today, serial, model and last_kWh_Update
\* change only in the step that takes a usable daily answer; every other
\* step of every cycle leaves all four as they were.
C33_DailyFieldsOnlyByDailyFile ==
    /\ []UnusableDailyKeeps
    /\ [][\A k \in DOMAIN poll :
            (~SameDailyValues(poll'[k].values, poll[k].values)
             \/ ~SameRefreshStamp(poll'[k].values, poll[k].values))
                => poll[k].pc = "day_wait"]_vars

\* C33 amended (Spec): as stated for energy-today, serial and model;
\* last_kWh_Update changes in the step that takes a usable daily answer, and
\* besides that only at the start of a cycle that finds it missing, which
\* sets it to the now of the cycle minus kwh_interval.
C33_DailyFieldsButFirstStamp ==
    /\ []UnusableDailyKeeps
    /\ [][\A k \in DOMAIN poll :
            /\ ~SameDailyValues(poll'[k].values, poll[k].values)
                  => poll[k].pc = "day_wait"
            /\ ~SameRefreshStamp(poll'[k].values, poll[k].values)
                  => \/ poll[k].pc = "day_wait"
                     \/ /\ poll[k].pc = "idle" /\ poll'[k].pc = "rt_wait"
                        /\ ~Has(poll[k].values["extra"], "last_kWh_Update")
                        /\ poll'[k].values["extra"]["last_kWh_Update"]
                             = poll'[k].now - poll[k].kwh_interval]_vars

\* a cycle whose daily answer was not usable kept the read of an earlier one
C33_Witness ==
    \E k \in DOMAIN poll :
        /\ poll[k].pc = "idle" /\ poll[k].outcome = "success"
        /\ DaySent(poll[k])
        /\ Has(poll[k].pre.values, "energyToday")
        /\ SameDailyValues(poll[k].values, poll[k].pre.values)
        /\ SameRefreshStamp(poll[k].values, poll[k].pre.values)
        /\ poll[k].values["extra"]["serialno"] = "BPI123456789"

\* C34 (SpecRepair): between any two consecutive GETs of one historical
\* import (the reachability check, the probes, the scan of the days) lies a
\* sleep of PACING_DELAY seconds.
C34_ImportIsPaced ==
    \A i \in 1..Len(requests) :
        /\ requests[i].n > 1 => requests[i].pause = PACING_DELAY
        /\ (i < Len(requests) /\ requests[i + 1].call = requests[i].call)
              => requests[i].pause = PACING_DELAY

SteadyFloor == (Seconds(MAX_INTERVAL) * (1000 - JITTER_FRACTION_PERMILLE)) \div 1000

C36_SteadyStateInterval ==
    \A k \in DOMAIN poll :
        (poll[k].pc = "idle" /\ Failed(poll[k]) /\ poll[k].fail_count >= 6)
            => /\ poll[k].work_interval >= SteadyFloor
               /\ poll[k].work_interval <= Seconds(MAX_INTERVAL)

C36_Witness ==
    \E k \in DOMAIN poll :
        /\ poll[k].pc = "idle" /\ poll[k].outcome = "exhausted"
        /\ poll[k].fail_count = 6
        /\ poll[k].base_interval = Seconds(1)
        /\ poll[k].work_interval = SteadyFloor

\* C37 (SpecInFlight): when an entry is unloaded while a cycle of its node is
\* in flight, the steps by which that cycle goes on and returns leave the
\* registry as it is and change no other node; and a node at rest, such as
\* one made for the same address after the unload, changes only by the start
\* of a cycle of its own or by its release.
InFlight(p) == p.pc \in {"rt_wait", "day_wait"}

C37_LateCompletionIsolated ==
    [][ /\ \A k \in DOMAIN poll :
              (Orphan(k) /\ InFlight(poll[k]) /\ poll'[k] # poll[k])
                  => /\ registry' = registry
                     /\ \A j \in DOMAIN poll \ {k} : poll'[j] = poll[j]
        /\ \A j \in DOMAIN poll :
              poll[j].pc = "idle"
                  => poll'[j] \in {poll[j], PollStart(poll[j], clock), Released(poll[j])}
      ]_vars

C37_Witness ==
    \E k \in DOMAIN poll : \E j \in DOMAIN poll :
        /\ poll[k].pc = "released" /\ poll[k].outcome = "success"
        /\ j # k /\ poll[j].ip = poll[k].ip
        /\ NodeKey(poll[j].ip) \in DOMAIN registry
        /\ registry[NodeKey(poll[j].ip)] = j
        /\ poll[j].pc = "idle" /\ poll[j].outcome = "none"
        /\ poll[j].fail_count = 0
        /\ poll[j].values = BootstrapDefaults(EmptyDict)

\* C38 (SpecSerial): a cycle changes the data of the config entry only when
\* the entry holds no serial number (none or the empty text) and the daily
\* file of that cycle gives a serial number that is neither empty nor
\* "no_serial", and the change is that serial number alone; an entry that
\* holds a serial number is never changed by a cycle, whatever serial number
\* the device reports.
HoldsSerial(data) == Has(data, "serial_number") /\ data["serial_number"] # ""

C38_SerialWrittenOnce ==
    [][ \A e \in DOMAIN entries :
          LET old == entries[e].data
              new == entries'[e].data
          IN  /\ HoldsSerial(old) => new = old
              /\ new # old =>
                    \E k \in DOMAIN poll :
                        /\ poll[k].entry = e /\ poll[k].pc = "day_wait"
                        /\ poll'[k].outcome = "success"
                        /\ poll'[k].values["extra"]["serialno"] \notin {"", "no_serial"}
                        /\ new = Put(old, "serial_number",
                                     poll'[k].values["extra"]["serialno"])
      ]_vars

C38_Witness ==
    \E e \in DOMAIN entries : \E k \in DOMAIN poll :
        /\ poll[k].entry = e /\ poll[k].pc = "idle" /\ poll[k].outcome = "success"
        /\ HoldsSerial(entries[e].data)
        /\ entries[e].data["serial_number"] = "BPI123456789"
        /\ poll[k].values["extra"]["serialno"] = "BPI987654321"

\* C39 (SpecListener): a run of update_listener reloads the entry exactly when
\* entry.data differed from entry.options, and then leaves data equal to the
\* unchanged options; a run that finds them equal changes nothing.  The
\* updates that async_setup_entry and the poll cycle make themselves (data
\* and options set to one dict) cause no reload: there are never more reloads
\* than options forms sent, so no loop of reloads.
ListenerRan(o, n) == n.reloads + n.noops = o.reloads + o.noops + 1

C39_ListenerStep ==
    \A e \in DOMAIN entries :
        LET o == entries[e]
            n == entries'[e]
        IN  ListenerRan(o, n) =>
              /\ (n.reloads = o.reloads + 1) <=> ~SameDict(o.data, o.options)
              /\ SameDict(n.data, n.options)
              /\ SameDict(n.options, o.options)
              /\ SameDict(o.data, o.options) => n = [o EXCEPT !.calls = @ - 1, !.noops = @ + 1]

C39_ReloadOnlyOnOptionsChange ==
    /\ [](\A e \in DOMAIN entries : entries[e].reloads <= entries[e].submits)
    /\ [][C39_ListenerStep]_vars

C39_Witness ==
    \E e \in DOMAIN entries :
        /\ entries[e].submits = 1 /\ entries[e].reloads = 1 /\ entries[e].noops >= 2
        /\ entries[e].calls = 0 /\ entries[e].lpc = "none"
        /\ entries[e].listener /\ entries[e].coordinator # 0
        /\ SameDict(entries[e].data, entries[e].options)
        /\ HoldsSerial(entries[e].data)

====
